---- MODULE Spec2Model ----
(***************************************************************************)
(* The Zoom OAuth-connection subsystem of the attendee backend:            *)
(*   - the tables ZoomOAuthApp, ZoomOAuthConnection and                    *)
(*     ZoomMeetingToZoomOAuthConnectionMapping,                            *)
(*   - the Celery task sync_zoom_oauth_connection, run by a pool of        *)
(*     workers one statement group at a time,                              *)
(*   - the Celery task validate_zoom_oauth_connections, one connection of  *)
(*     its loop at a time,                                                 *)
(*   - the REST views on zoom_oauth_connections.                           *)
(* Python values are encoded in integers and strings: None is -1, and a    *)
(* falsy value (0, "") of an integer-like field is 0.                      *)
(***************************************************************************)
EXTENDS Integers, Sequences, FiniteSets, Bags, TLC

VARIABLES
    apps,           \* table ZoomOAuthApp: app id -> row
    conns,          \* table ZoomOAuthConnection: connection id -> row
    mappings,       \* table ZoomMeetingToZoomOAuthConnectionMapping:
                    \* <<app, meeting id>> -> its rows, in the order of their creation
    queue,          \* Celery: the bag of pending sync tasks <<connection id, retries>>
    task,           \* worker -> the sync run it executes (position and locals)
    runs,           \* number of task bodies started so far
    webhooks,       \* connection id -> the number of webhook events triggered for it
                    \* and the last of them
    now,            \* the clock: the time timezone.now() returns
    env,            \* the scenario: what the provider may answer
    reports,        \* history: <<app, meeting id>> -> the connections whose completed
                    \* syncs listed the meeting, in the order of their completion
    px,             \* the run of validate_zoom_oauth_connections, or the
                    \* pure-function harness: position, inputs and snapshots
    resp,           \* REST API: the last request and its response
    enq             \* the call of enqueue_sync_zoom_oauth_connection_task under
                    \* way: its position, its object and what it found

vars == <<apps, conns, mappings, queue, task, runs, webhooks, now, env,
          reports, px, resp, enq>>

---------------------------------------------------------------------------
(* Bounds of the model *)

MaxMeetingId == 2   \* meeting ids are 0..MaxMeetingId (0 is falsy) and None
MaxListLen   == 1   \* meetings listed by the provider in one sync
MaxListed    == 2   \* meetings listed in one sync where their order is looked at
MaxPages     == 2   \* pages of the provider's meeting list
MaxRuns      == 2   \* task bodies started
MaxPending   == 1   \* tasks waiting in the queue
MaxSyncs     == 3   \* task bodies started when every sync succeeds
MaxSweeps    == 1   \* runs of the validation task
MaxTime      == 2   \* ticks of the clock
MaxTokens    == 3   \* refresh tokens the provider issues
MaxCalls     == 1   \* calls of create_or_update_zoom_oauth_app
MaxAttempts  == 8   \* task bodies the worker would start for one enqueued sync

(* Program constants *)

None == -1

max_retries == 6

page_size == 25

---------------------------------------------------------------------------
(* Values *)

AppIds  == {1, 2}
ConnIds == {1, 2, 3, 4}
Workers == {1, 2}

\* The app each connection id belongs to when it exists from the start:
\* connections 1 and 2 are two users of app 1, connections 3 and 4 two users of
\* app 2.
AppOfConn == (1 :> 1) @@ (2 :> 1) @@ (3 :> 2) @@ (4 :> 2)

MeetingIdValues == {None} \cup (0 .. MaxMeetingId)
MeetingIds      == 1 .. MaxMeetingId
MappingKeys     == AppIds \X MeetingIds
\* Refresh tokens: None, the empty string (0) and two tokens.
TokenValues     == {None, 0, 1, 2}

\* Python truthiness of an optional integer-like value: None, 0 and "" are falsy.
Truthy(v) == v /= None /\ v /= 0

CONNECTED    == "connected"
DISCONNECTED == "disconnected"

ZOOM_OAUTH_CONNECTION_STATE_CHANGE == "zoom_oauth_connection.state_change"

\* connection_failure_data: None, or a dict with "error" and "timestamp".
\* An error text is kept by its parts: the message, and for a provider error the
\* payload's error code and reason that the f-string prints after it.
NoText == [msg |-> "", code |-> "", reason |-> ""]
NoFailureData == [isNone |-> TRUE, error |-> NoText, timestamp |-> None]
FailureData(text, t) == [isNone |-> FALSE, error |-> text, timestamp |-> t]

Text(m) == [msg |-> m, code |-> "", reason |-> ""]

\* str(ZoomAPIAuthenticationError(f"Zoom Authentication error: {e.response.json()}"))
AuthErrorText(payload) ==
    [msg |-> "Zoom Authentication error: ", code |-> payload.error, reason |-> payload.reason]

NoCredentialsText == Text("No credentials found for zoom oauth connection")
MissingFieldsText == Text("Missing refresh_token or client_secret")

RECURSIVE SeqsUpTo(_, _)
SeqsUpTo(S, n) ==
    IF n = 0 THEN {<<>>}
    ELSE LET shorter == SeqsUpTo(S, n - 1)
         IN  shorter \cup {Append(s, x) : s \in shorter, x \in S}

Range(s) == {s[i] : i \in 1 .. Len(s)}

---------------------------------------------------------------------------
(* The tables *)

\* A ZoomOAuthApp row. client_secret and webhook_secret are the entries of its
\* encrypted credentials.
AppRow(p, cid, secret, wsecret) ==
    [exists |-> TRUE, project |-> p, client_id |-> cid,
     client_secret |-> secret, webhook_secret |-> wsecret]

\* A ZoomOAuthConnection row. has_credentials is FALSE when get_credentials()
\* gives None; refresh_token is the "refresh_token" entry of the credentials.
ConnRow(a, st, fd, hasCreds, rt) ==
    [exists |-> TRUE, zoom_oauth_app |-> a, state |-> st,
     connection_failure_data |-> fd,
     has_credentials |-> hasCreds, refresh_token |-> rt,
     last_attempted_sync_at |-> None,
     last_successful_sync_at |-> None,
     last_successful_sync_started_at |-> None,
     sync_task_enqueued_at |-> None,
     sync_task_requested_at |-> None]

\* The place of a row that does not exist (only "exists" is read of it).
NoConn == [ConnRow(1, CONNECTED, NoFailureData, FALSE, None) EXCEPT !.exists = FALSE]

\* Model.save(): UPDATE of every field of the in-memory object by primary key,
\* and an INSERT of the object when no row has that key.
Save(table, id, obj) == [table EXCEPT ![id] = [obj EXCEPT !.exists = TRUE]]

\* A mapping row: the connection it points to and its creation time; its app
\* and meeting id are the key it is filed under.
MappingRow(c, t) == [zoom_oauth_connection |-> c, created_at |-> t]

NoMappings == [k \in MappingKeys |-> <<>>]

---------------------------------------------------------------------------
(* The provider's answers *)

\* The payload of an HTTP error: {"error": code, "reason": text}, or
\* {"error": code} alone (reason "").
ErrorPayloads ==
    {[error |-> "invalid_grant", reason |-> "Invalid Token!"],
     [error |-> "invalid_client", reason |-> "Invalid client_id or client_secret"],
     [error |-> "invalid_client", reason |-> ""],
     [error |-> "invalid_request", reason |-> "Bad request"]}

NoPayload == [error |-> "", reason |-> ""]

\* The answers to POST https://zoom.us/oauth/token: a 2xx response with a token
\* body, an HTTP error with a payload, or no response at all (timeout).
TokenOk(at, rt) == [kind |-> "ok", access_token |-> at, refresh_token |-> rt, payload |-> NoPayload]
HttpError(p)    == [kind |-> "http_error", access_token |-> None, refresh_token |-> None, payload |-> p]
NoResponse      == [kind |-> "no_response", access_token |-> None, refresh_token |-> None, payload |-> NoPayload]

\* access_token: None (absent) or 1 (a token).
TokenResponses ==
    {TokenOk(at, rt) : at \in {None, 1}, rt \in TokenValues}
    \cup {HttpError(p) : p \in ErrorPayloads} \cup {NoResponse}

\* GET /v2/users/me/meetings: a page of meetings (each by its "id") and the
\* continuation token (None or 0 when there is no further page).
PageOk(ms, tok) == [kind |-> "ok", meetings |-> ms, next_page_token |-> tok, payload |-> NoPayload]
PageError(p)    == [kind |-> "http_error", meetings |-> <<>>, next_page_token |-> None, payload |-> p]
PageNoResponse  == [kind |-> "no_response", meetings |-> <<>>, next_page_token |-> None, payload |-> NoPayload]

PageResponses(ids, n) ==
    {PageOk(ms, tok) : ms \in SeqsUpTo(ids, n), tok \in {None, 0, 1}}
    \cup {PageError(p) : p \in ErrorPayloads} \cup {PageNoResponse}

\* The provider's answers to the successive requests of one listing of at most
\* n meetings on at most k pages: every answer but the last is a page with a
\* continuation token, the last is a page without one or a failure.
RECURSIVE PageScripts(_, _, _)
PageScripts(ids, n, k) ==
    IF k = 0 THEN {}
    ELSE LET first == PageResponses(ids, n)
         IN  {<<r>> : r \in {x \in first : ~(x.kind = "ok" /\ Truthy(x.next_page_token))}}
             \cup UNION {{<<r>> \o rest : rest \in PageScripts(ids, n - Len(r.meetings), k - 1)} :
                            r \in {x \in first : x.kind = "ok" /\ Truthy(x.next_page_token)}}

\* GET /v2/users/me: the user's "pmi".
UserOk(pmi)    == [kind |-> "ok", pmi |-> pmi, payload |-> NoPayload]
UserError(p)   == [kind |-> "http_error", pmi |-> None, payload |-> p]
UserNoResponse == [kind |-> "no_response", pmi |-> None, payload |-> NoPayload]

UserResponses(ids) ==
    {UserOk(v) : v \in ids} \cup {UserError(p) : p \in ErrorPayloads} \cup {UserNoResponse}

\* The ids the provider lists where requests may fail (None, a falsy id and a
\* meeting id), and where every request succeeds (two meeting ids).
FaultyIds  == {None, 0, 1}
HealthyIds == {1, 2}

\* The refresh requests the provider rejects for the token or the client.
TokenRejections ==
    {HttpError(p) : p \in {q \in ErrorPayloads : q.error \in {"invalid_grant", "invalid_client"}}}

\* The answers to the refresh request: the rejections, no response and the
\* answer with an access token; all of them; the rejections and the answer with
\* an access token; or that answer alone (an access token and no new refresh
\* token).
TokenAnswers ==
    IF env.faults /\ env.rejections
    THEN TokenRejections \cup {TokenOk(1, None), NoResponse}
    ELSE IF env.faults THEN TokenResponses
    ELSE IF env.rejections THEN TokenRejections \cup {TokenOk(1, None)}
    ELSE {TokenOk(1, None)}

\* The answers to the request for the user.
UserAnswers ==
    IF env.faults /\ env.rejections THEN {UserOk(1)}
    ELSE IF env.faults THEN UserResponses(FaultyIds)
    ELSE IF env.rejections THEN {UserOk(1)}
    ELSE {UserOk(v) : v \in HealthyIds}

---------------------------------------------------------------------------
(* sync_zoom_oauth_connection_task.py: the helpers *)

\* A variant that takes invalid_grant alone for an authentication error.
invalid_grant_only(r) ==
    IF r.kind = "no_response" THEN "attribute_error"
    ELSE IF r.payload.error = "invalid_grant" THEN "auth"
    ELSE "return"

\* A variant that takes a request without a response for an authentication
\* error.
no_response_is_rejected(r) ==
    IF r.kind = "no_response" THEN "auth"
    ELSE IF r.payload.error = "invalid_grant" \/ r.payload.error = "invalid_client" THEN "auth"
    ELSE "return"

\* _raise_if_error_is_authentication_error: "auth" when it raises
\* ZoomAPIAuthenticationError, "attribute_error" when e.response is None and
\* e.response.json() fails, "return" when it returns.
_raise_if_error_is_authentication_error(r) ==
    IF r.kind = "no_response" THEN "attribute_error"
    ELSE IF r.payload.error = "invalid_grant" \/ r.payload.error = "invalid_client" THEN "auth"
    ELSE "return"

\* The result of a helper: how it ended ("return", "auth" for
\* ZoomAPIAuthenticationError, "error" for any other exception), the value
\* returned, the text of the exception, the connection object as the helper left
\* it, whether the object was saved, and whether a request was sent.
Result(o, v, text, obj, saved, sent) ==
    [outcome |-> o, value |-> v, error |-> text, obj |-> obj, saved |-> saved, sent |-> sent]

\* No call of a helper is under way.
NoResult == Result("", None, NoText, NoConn, FALSE, FALSE)

\* A variant of the test of the fields that looks at the refresh token alone.
missing_refresh_token(refresh_token, client_id, client_secret) == ~Truthy(refresh_token)

\* not refresh_token or not client_id or not client_secret
missing_fields(refresh_token, client_id, client_secret) ==
    ~Truthy(refresh_token) \/ client_id = "" \/ client_secret = ""

\* A variant of the rotation test that never stores the new refresh token.
never_rotated(new_refresh, refresh_token) == FALSE

\* A variant of the rotation test that stores whatever the response carries.
always_rotated(new_refresh, refresh_token) == TRUE

\* new_refresh and new_refresh != refresh_token
rotated(new_refresh, refresh_token) ==
    Truthy(new_refresh) /\ new_refresh /= refresh_token

\* A variant that returns whatever access token the answer carries, None too,
\* and raises nothing.
access_token_or_none(obj, app, r) == Result("return", r.access_token, NoText, obj, FALSE, TRUE)

\* _get_access_token(zoom_oauth_connection) with the app row it reads and the
\* provider's answer r to the refresh request.
_get_access_token(obj, app, r) ==
    IF ~obj.has_credentials
    THEN Result("auth", None, NoCredentialsText, obj, FALSE, FALSE)
    ELSE IF missing_fields(obj.refresh_token, app.client_id, app.client_secret)
    THEN Result("auth", None, MissingFieldsText, obj, FALSE, FALSE)
    ELSE IF r.kind = "ok"
    THEN IF ~Truthy(r.access_token)
         THEN Result("error", None, Text("No access_token in refresh response."), obj, FALSE, TRUE)
         ELSE IF rotated(r.refresh_token, obj.refresh_token)
         THEN Result("return", r.access_token, NoText,
                     [obj EXCEPT !.refresh_token = r.refresh_token], TRUE, TRUE)
         ELSE Result("return", r.access_token, NoText, obj, FALSE, TRUE)
    ELSE LET raised == _raise_if_error_is_authentication_error(r)
         IN  IF raised = "auth"
             THEN Result("auth", None, AuthErrorText(r.payload), obj, FALSE, TRUE)
             ELSE IF raised = "attribute_error"
             THEN Result("error", None, Text("'NoneType' object has no attribute 'json'"), obj, FALSE, TRUE)
             ELSE Result("error", None, Text("Failed to refresh Zoom access token."), obj, FALSE, TRUE)

\* _make_zoom_api_request: the outcome for the provider's answer r.
_make_zoom_api_request(r) ==
    IF r.kind = "ok" THEN "return"
    ELSE LET raised == _raise_if_error_is_authentication_error(r)
         IN  IF raised = "auth" THEN "auth" ELSE "error"

\* The text of the exception _make_zoom_api_request ends with.
ApiErrorText(r) ==
    IF _make_zoom_api_request(r) = "auth" THEN AuthErrorText(r.payload)
    ELSE IF r.kind = "no_response" THEN Text("'NoneType' object has no attribute 'json'")
    ELSE Text("HTTPError")

\* A variant of the loop that puts the meetings of a page before those of the
\* pages fetched earlier.
RECURSIVE later_pages_first(_, _, _, _, _)
later_pages_first(script, i, next_page_token, all_meetings, requests) ==
    LET sent == Append(requests, IF Truthy(next_page_token) THEN next_page_token ELSE None)
        r    == script[i]
        out  == _make_zoom_api_request(r)
    IN  IF out /= "return"
        THEN [outcome |-> out, value |-> all_meetings, error |-> ApiErrorText(r), requests |-> sent]
        ELSE IF ~Truthy(r.next_page_token)
        THEN [outcome |-> "return", value |-> r.meetings \o all_meetings, error |-> NoText,
              requests |-> sent]
        ELSE later_pages_first(script, i + 1, r.next_page_token,
                               r.meetings \o all_meetings, sent)

\* A variant of the test that ends the loop on an absent token only.
next_page_token_is_none(next_page_token) == next_page_token = None

\* if not next_page_token: break
no_next_page(next_page_token) == ~Truthy(next_page_token)

\* The next_page_token parameter of a request: None when params has none.
request_params(next_page_token) ==
    IF Truthy(next_page_token) THEN next_page_token ELSE None

\* The loop of _get_zoom_meetings from request number i of the provider's
\* answers: the requests sent so far (each by the next_page_token it carries,
\* None for a request without one) and the meetings collected so far.
RECURSIVE get_zoom_meetings_loop(_, _, _, _, _)
get_zoom_meetings_loop(script, i, next_page_token, all_meetings, requests) ==
    LET sent == Append(requests, request_params(next_page_token))
        r    == script[i]
        out  == _make_zoom_api_request(r)
    IN  IF out /= "return"
        THEN [outcome |-> out, value |-> all_meetings, error |-> ApiErrorText(r), requests |-> sent]
        ELSE IF no_next_page(r.next_page_token)
        THEN [outcome |-> "return", value |-> all_meetings \o r.meetings, error |-> NoText,
              requests |-> sent]
        ELSE get_zoom_meetings_loop(script, i + 1, r.next_page_token,
                                    all_meetings \o r.meetings, sent)

\* _get_zoom_meetings(access_token) against the provider's answers.
_get_zoom_meetings(script) == get_zoom_meetings_loop(script, 1, None, <<>>, <<>>)

\* _get_zoom_personal_meeting_id(access_token) against the provider's answer.
_get_zoom_personal_meeting_id(r) ==
    LET out == _make_zoom_api_request(r)
    IN  [outcome |-> out, value |-> r.pmi,
         error |-> IF out = "return" THEN NoText ELSE ApiErrorText(r)]

\* The results of _get_zoom_meetings over the provider's answers, where requests
\* may fail and where every page is served.
FaultyListings ==
    {_get_zoom_meetings(script) : script \in PageScripts(FaultyIds, MaxListLen, MaxPages)}

HealthyListings ==
    {_get_zoom_meetings(script) :
        script \in {sc \in PageScripts(HealthyIds, MaxListLen, MaxPages) :
                       \A i \in 1 .. Len(sc) : sc[i].kind = "ok"}}

\* The results over the provider's answers for a user with up to MaxListed
\* meetings, whose requests may fail.
LongListings ==
    {_get_zoom_meetings(script) : script \in PageScripts(HealthyIds, MaxListed, MaxPages)}

\* The result for a user who has no scheduled meeting: one empty page.
NoMeetingListings == {_get_zoom_meetings(<<PageOk(<<>>, None)>>)}

\* The results for a user who has no scheduled meeting when the request may go
\* unanswered.
UnansweredListings == NoMeetingListings \cup {_get_zoom_meetings(<<PageNoResponse>>)}

\* The results of the listing in the scenario: of a user without meetings where
\* the request may go unanswered, with failures, of a user without meetings
\* where only refreshes are rejected, or with every page served.
ListingAnswers ==
    IF env.faults /\ env.rejections THEN UnansweredListings
    ELSE IF env.faults THEN FaultyListings
    ELSE IF env.rejections THEN NoMeetingListings
    ELSE HealthyListings

---------------------------------------------------------------------------
(* The mapping upsert *)

\* A table without the constraint.
no_unique_constraint == FALSE

\* The mapping model's relational constraint: one row per (zoom_oauth_app,
\* meeting_id).
unique_zoom_oauth_app_meeting_id == TRUE

\* QuerySet.get(zoom_oauth_app=a, meeting_id=m), under select_for_update.
get(table, a, m) ==
    LET found == table[<<a, m>>]
    IN  IF Len(found) = 0 THEN [outcome |-> "DoesNotExist", row |-> MappingRow(None, None)]
        ELSE IF Len(found) = 1 THEN [outcome |-> "return", row |-> found[1]]
        ELSE [outcome |-> "MultipleObjectsReturned", row |-> found[1]]

\* QuerySet.create(zoom_oauth_app=a, meeting_id=m, zoom_oauth_connection=c): the
\* INSERT, which the constraint refuses when the pair has a row.
create(table, a, m, c, t) ==
    IF unique_zoom_oauth_app_meeting_id /\ Len(table[<<a, m>>]) > 0
    THEN [outcome |-> "IntegrityError", table |-> table]
    ELSE [outcome |-> "return", table |-> [table EXCEPT ![<<a, m>>] = Append(@, MappingRow(c, t))]]

\* A variant that sets the defaults on the row and does not save it.
update_found_unsaved(table, a, m, c) ==
    [outcome |-> "return", created |-> FALSE,
     row |-> [table[<<a, m>>][1] EXCEPT !.zoom_oauth_connection = c],
     table |-> table]

\* The second half of update_or_create for a row that get found: the defaults
\* are set on it and it is saved.
update_found(table, a, m, c) ==
    [outcome |-> "return", created |-> FALSE,
     row |-> [table[<<a, m>>][1] EXCEPT !.zoom_oauth_connection = c],
     table |-> [table EXCEPT ![<<a, m>>] = <<[@[1] EXCEPT !.zoom_oauth_connection = c]>>]]

\* update_or_create after its get_or_create found no row: the row is created,
\* or, when the INSERT is refused because the row was created meanwhile, it is
\* got again and updated.
create_or_update(table, a, m, c, t) ==
    LET made == create(table, a, m, c, t)
    IN  IF made.outcome = "return"
        THEN [outcome |-> "return", created |-> TRUE, row |-> MappingRow(c, t),
              table |-> made.table]
        ELSE IF get(table, a, m).outcome = "return"
        THEN update_found(table, a, m, c)
        ELSE [outcome |-> "error", created |-> FALSE, row |-> MappingRow(None, None),
              table |-> table]

\* A variant that inserts a row whatever the table holds.
create_regardless(table, a, m, c, t) ==
    [outcome |-> "return", created |-> TRUE, row |-> MappingRow(c, t),
     table |-> [table EXCEPT ![<<a, m>>] = Append(@, MappingRow(c, t))]]

\* QuerySet.update_or_create(zoom_oauth_app=a, meeting_id=m,
\* defaults={"zoom_oauth_connection": c}) run without interruption: the row found
\* by (app, meeting id) gets the defaults and is saved; when there is none, a
\* row is created; get() raises MultipleObjectsReturned when there are several.
update_or_create(table, a, m, c, t) ==
    LET got == get(table, a, m)
    IN  IF got.outcome = "DoesNotExist" THEN create_or_update(table, a, m, c, t)
        ELSE IF got.outcome = "return" THEN update_found(table, a, m, c)
        ELSE [outcome |-> "error", created |-> FALSE, row |-> got.row, table |-> table]

\* The state of the loop of _upsert_zoom_meeting_to_zoom_oauth_connection_mapping.
UpsertStart(table) ==
    [outcome |-> "return", table |-> table, num_updated |-> 0, num_created |-> 0]

\* A variant of the rest of an iteration that also deletes the other rows of
\* the connection in the app, as a sync that replaced the connection's mappings
\* would.
replacing_the_mappings(st, uc, m, c, a) ==
    IF uc.outcome = "error"
    THEN [st EXCEPT !.outcome = "error"]
    ELSE [outcome |-> "return",
          table |-> [k \in DOMAIN uc.table |->
                        IF k = <<a, m>> THEN <<[uc.row EXCEPT !.zoom_oauth_connection = c]>>
                        ELSE IF k[1] = a
                        THEN SelectSeq(uc.table[k], LAMBDA row : row.zoom_oauth_connection /= c)
                        ELSE uc.table[k]],
          num_updated |-> st.num_updated, num_created |-> st.num_created]

\* The rest of an iteration after update_or_create gave uc: the counters, and
\* the repointing of a row that is not the connection's.
after_update_or_create(st, uc, m, c, a) ==
    IF uc.outcome = "error"
    THEN [st EXCEPT !.outcome = "error"]
    ELSE IF ~uc.created /\ uc.row.zoom_oauth_connection /= c
    THEN [outcome |-> "return",
          table |-> [uc.table EXCEPT ![<<a, m>>] =
                        <<[uc.row EXCEPT !.zoom_oauth_connection = c]>>],
          num_updated |-> st.num_updated + 1, num_created |-> st.num_created]
    ELSE [outcome |-> "return", table |-> uc.table,
          num_updated |-> st.num_updated,
          num_created |-> st.num_created + (IF uc.created THEN 1 ELSE 0)]

\* One iteration of the loop, for zoom_meeting_id m and the connection c of app
\* a at time t.
upsert_iteration(st, m, c, a, t) ==
    IF ~Truthy(m)
    THEN st
    ELSE after_update_or_create(st, update_or_create(st.table, a, m, c, t), m, c, a)

\* The loop run without interruption from position i of the list; an exception
\* ends it.
RECURSIVE upsert_from(_, _, _, _, _, _)
upsert_from(st, ids, i, c, a, t) ==
    IF i > Len(ids) \/ st.outcome = "error"
    THEN st
    ELSE upsert_from(upsert_iteration(st, ids[i], c, a, t), ids, i + 1, c, a, t)

\* _upsert_zoom_meeting_to_zoom_oauth_connection_mapping(zoom_meeting_ids,
\* zoom_oauth_connection) on the table, for the connection c of app a.
_upsert_zoom_meeting_to_zoom_oauth_connection_mapping(table, ids, c, a, t) ==
    upsert_from(UpsertStart(table), ids, 1, c, a, t)

---------------------------------------------------------------------------
(* sync_zoom_oauth_connection: one run of the task body by worker w *)

Idle ==
    [pc |-> "idle", cid |-> 1, retries |-> 0, pre |-> NoConn, obj |-> NoConn,
     sync_started_at |-> None, access_token |-> None,
     zoom_meetings |-> <<>>,
     zoom_personal_meeting_id |-> None,
     zoom_meeting_ids |-> <<>>, upsert_calls |-> 0, i |-> 1, missed |-> FALSE,
     exception |-> "", error |-> NoText, res |-> NoResult]

Pending == BagToSet(queue)

\* A variant of the payload that leaves the failure data out.
payload_without_failure_data(obj) ==
    [state |-> obj.state, connection_failure_data |-> NoFailureData]

\* The payload zoom_oauth_connection_webhook_payload builds from the object.
zoom_oauth_connection_webhook_payload(obj) ==
    [state |-> obj.state, connection_failure_data |-> obj.connection_failure_data]

\* trigger_webhook(webhook_trigger_type, zoom_oauth_connection, payload).
\* The log keeps, for each connection, the number of events triggered and the
\* last of them.
trigger_webhook(log, type, c, payload) ==
    [log EXCEPT ![c] = [count |-> @.count + 1, trigger |-> type, payload |-> payload]]

NoWebhook ==
    [count |-> 0, trigger |-> "",
     payload |-> [state |-> "", connection_failure_data |-> NoFailureData]]

\* enqueue_sync_zoom_oauth_connection_task: the object as it saves it.
EnqueuedObj(obj, t) ==
    [obj EXCEPT !.sync_task_enqueued_at = t, !.sync_task_requested_at = None]

\* Variants of the three saves, each leaving out or adding one assignment.
SuccessObjKeepingState(obj, started, t) ==
    [obj EXCEPT !.last_attempted_sync_at = t,
                !.last_successful_sync_at = t,
                !.last_successful_sync_started_at = started]

AuthFailureObjWithoutData(obj, text, t) == [obj EXCEPT !.state = DISCONNECTED]

OtherFailureObjDisconnecting(obj, t) ==
    [obj EXCEPT !.last_attempted_sync_at = t, !.state = DISCONNECTED]

\* A variant of the success save that takes the time of the save as the start.
SuccessObjStartedAtSave(obj, started, t) ==
    [obj EXCEPT !.last_attempted_sync_at = t,
                !.last_successful_sync_at = t,
                !.last_successful_sync_started_at = t,
                !.state = CONNECTED,
                !.connection_failure_data = NoFailureData]

\* The connection object as the end of the try block saves it.
SuccessObj(obj, started, t) ==
    [obj EXCEPT !.last_attempted_sync_at = t,
                !.last_successful_sync_at = t,
                !.last_successful_sync_started_at = started,
                !.state = CONNECTED,
                !.connection_failure_data = NoFailureData]

\* A variant of the handler's save that stores an empty error text.
AuthFailureObjWithEmptyError(obj, text, t) ==
    [obj EXCEPT !.state = DISCONNECTED,
                !.connection_failure_data = FailureData(Text(""), t)]

\* The connection object as the ZoomAPIAuthenticationError handler saves it.
AuthFailureObj(obj, text, t) ==
    [obj EXCEPT !.state = DISCONNECTED,
                !.connection_failure_data = FailureData(text, t)]

\* The connection object as the handler of any other exception saves it.
OtherFailureObj(obj, t) == [obj EXCEPT !.last_attempted_sync_at = t]

\* The handler an exception of the try block is caught by.
Handler(kind) == IF kind = "auth" THEN "auth_handler" ELSE "error_handler"

Raise(t, kind, text) ==
    [t EXCEPT !.pc = Handler(kind), !.exception = kind, !.error = text]

\* A variant that puts the personal meeting id first.
personal_meeting_id_first(zoom_meetings, zoom_personal_meeting_id) ==
    <<zoom_personal_meeting_id>> \o zoom_meetings

\* zoom_meeting_ids = [zoom_meeting["id"] for zoom_meeting in zoom_meetings]
\*                    + [zoom_personal_meeting_id]
\* (a meeting is kept by its id).
zoom_meeting_ids_of(zoom_meetings, zoom_personal_meeting_id) ==
    zoom_meetings \o <<zoom_personal_meeting_id>>

\* A variant of Celery's test that allows one retry more.
retried_once_more(retries) == retries <= max_retries

\* Whether the task queue runs the task again after a run that raised.
Retried(retries) == retries < max_retries

\* A variant of the enqueueing that saves the timestamps and publishes nothing.
delay_not_called(id) == EmptyBag

\* sync_zoom_oauth_connection.delay(zoom_oauth_connection.id): the tasks it
\* adds to the queue, each with its count of retries.
delay(id) == SetToBag({<<id, 0>>})

\* No call of enqueue_sync_zoom_oauth_connection_task is under way.
NoEnqueue == [pc |-> "no_call"]

\* The call under way has ended, by a return or by an exception.
Ended(how) == [pc |-> how]

\* The row of connection c is written by the transaction of a call of
\* enqueue_sync_zoom_oauth_connection_task that has not ended: the UPDATE of
\* its save() holds the lock of the row, and other writers of the row wait
\* (readers do not).
Locked(c) == enq.pc \in {"delay", "commit"} /\ enq.id = c

\* The table after "with transaction.atomic()" is left by an exception: the
\* save of the block is undone.
rolled_back(table, id, obj) == table

\* enqueue_sync_zoom_oauth_connection_task(zoom_oauth_connection), called by the
\* scheduler or a view with the connection c it loaded: the statements of the
\* block before the delay, sync_task_enqueued_at = timezone.now(),
\* sync_task_requested_at = None and save(), in a transaction that is not
\* committed yet. The call keeps the object until it ends.
EnqueueCall(c, obj) ==
    /\ enq.pc \in {"no_call", "returned", "raised"}
    /\ BagCardinality(queue) < MaxPending
    /\ enq' = [pc |-> "delay", id |-> c, obj |-> EnqueuedObj(obj, now)]

\* The scheduler loads connection c and calls
\* enqueue_sync_zoom_oauth_connection_task with it.
EnqueueBegin(c) ==
    /\ conns[c].exists
    /\ runs + BagCardinality(queue) < env.runs
    /\ EnqueueCall(c, conns[c])
    /\ UNCHANGED <<apps, conns, mappings, queue, task, runs, webhooks, now, env, reports, px, resp>>

\* sync_zoom_oauth_connection.delay(zoom_oauth_connection.id), inside the
\* block: the task is published, and a worker may take it before the
\* transaction commits; or the broker cannot be reached and delay raises: the
\* exception leaves the block, the transaction is rolled back and the
\* exception goes on to the caller.
EnqueueDelay ==
    /\ enq.pc = "delay"
    /\ \/ /\ queue' = queue (+) delay(enq.id)
          /\ enq' = [enq EXCEPT !.pc = "commit"]
          /\ conns' = conns
       \/ /\ env.faults
          /\ queue' = queue
          /\ conns' = rolled_back(conns, enq.id, enq.obj)
          /\ enq' = Ended("raised")
    /\ UNCHANGED <<apps, mappings, task, runs, webhooks, now, env, reports, px, resp>>

\* The block ends: the transaction commits the save and the call returns; or
\* the commit fails, the save is lost and the task stays published.
EnqueueCommit ==
    /\ enq.pc = "commit"
    /\ \/ /\ conns' = Save(conns, enq.id, enq.obj)
          /\ enq' = Ended("returned")
       \/ /\ env.faults
          /\ conns' = rolled_back(conns, enq.id, enq.obj)
          /\ enq' = Ended("raised")
    /\ UNCHANGED <<apps, mappings, queue, task, runs, webhooks, now, env, reports, px, resp>>

\* The steps of a call of enqueue_sync_zoom_oauth_connection_task.
Enqueue ==
    \/ \E c \in ConnIds : EnqueueBegin(c)
    \/ EnqueueDelay
    \/ EnqueueCommit

\* A worker takes a pending task: ZoomOAuthConnection.objects.get(id=...) and
\* sync_started_at = timezone.now().
Start(w) ==
    /\ task[w].pc = "idle"
    /\ runs < env.runs
    /\ \E k \in Pending :
         /\ queue' = queue (-) SetToBag({k})
         /\ task' = [task EXCEPT ![w] =
                [Idle EXCEPT !.cid = k[1], !.retries = k[2],
                             !.pc = IF conns[k[1]].exists THEN "token" ELSE "raised",
                             !.exception = IF conns[k[1]].exists THEN "" ELSE "DoesNotExist",
                             !.pre = conns[k[1]], !.obj = conns[k[1]],
                             !.sync_started_at = now]]
    /\ runs' = runs + 1
    /\ UNCHANGED <<apps, conns, mappings, webhooks, now, env, reports, px, resp, enq>>

\* access_token = _get_access_token(zoom_oauth_connection), up to the request:
\* the credentials of the object, the client id and the client secret of the
\* app row as it is now, the test of the fields, and the request sent, which
\* the provider answers with r. A call that finds a field missing raises
\* without a request; of a call that sent one, the task keeps what the call
\* does with the answer when it arrives.
TokenRequest(w, r) ==
    /\ task[w].pc = "token"
    /\ LET t   == task[w]
           res == _get_access_token(t.obj, apps[t.obj.zoom_oauth_app], r)
       IN  task' = [task EXCEPT ![w] =
                  IF res.sent
                  THEN [t EXCEPT !.pc = "token_answer", !.res = res]
                  ELSE Raise(t, res.outcome, res.error)]
    /\ UNCHANGED <<apps, conns, mappings, queue, runs, webhooks, now, env, reports, px, enq>>

\* The refresh request of a run, answered by one of the answers of the
\* scenario.
Token(w) ==
    /\ \E r \in TokenAnswers : TokenRequest(w, r)
    /\ UNCHANGED resp

\* The answer has arrived and requests.post returns: the rest of
\* _get_access_token, which saves a rotated refresh token (set_credentials) and
\* returns the access token, or raises.
TokenAnswer(w) ==
    /\ task[w].pc = "token_answer"
    /\ LET t   == task[w]
           res == t.res
       IN  /\ res.saved => ~Locked(t.cid)
           /\ conns' = IF res.saved THEN Save(conns, t.cid, res.obj) ELSE conns
           /\ task' = [task EXCEPT ![w] =
                  IF res.outcome = "return"
                  THEN [t EXCEPT !.pc = "meetings", !.obj = res.obj,
                                 !.access_token = res.value, !.res = NoResult]
                  ELSE [Raise(t, res.outcome, res.error) EXCEPT !.res = NoResult]]
    /\ UNCHANGED <<apps, mappings, queue, runs, webhooks, now, env, reports, px, resp, enq>>

\* zoom_meetings = _get_zoom_meetings(access_token), against one of the given
\* listings.
MeetingsFrom(w, listings) ==
    /\ task[w].pc = "meetings"
    /\ \E res \in listings :
         LET t == task[w]
         IN  task' = [task EXCEPT ![w] =
                IF res.outcome = "return"
                THEN [t EXCEPT !.zoom_meetings = res.value, !.pc = "pmi"]
                ELSE Raise(t, res.outcome, res.error)]
    /\ UNCHANGED <<apps, conns, mappings, queue, runs, webhooks, now, env, reports, px, resp, enq>>

\* The listing of the scenario.
Meetings(w) == MeetingsFrom(w, ListingAnswers)

\* A listing of up to MaxListed meetings on up to MaxPages pages.
MeetingsListed(w) == MeetingsFrom(w, LongListings)

\* zoom_personal_meeting_id = _get_zoom_personal_meeting_id(access_token),
\* zoom_meeting_ids = [the listed ids] + [zoom_personal_meeting_id], and the call
\* of the upsert with this list.
PersonalMeetingId(w) ==
    /\ task[w].pc = "pmi"
    /\ \E r \in UserAnswers :
         LET t   == task[w]
             res == _get_zoom_personal_meeting_id(r)
         IN  task' = [task EXCEPT ![w] =
                IF res.outcome = "return"
                THEN [t EXCEPT !.zoom_personal_meeting_id = res.value,
                               !.zoom_meeting_ids = zoom_meeting_ids_of(t.zoom_meetings, res.value),
                               !.upsert_calls = t.upsert_calls + 1,
                               !.i = 1, !.pc = "upsert"]
                ELSE Raise(t, res.outcome, res.error)]
    /\ UNCHANGED <<apps, conns, mappings, queue, runs, webhooks, now, env, reports, px, resp, enq>>

\* One statement of the upsert loop, or its end. An iteration is one statement
\* (the skip of a falsy id, or the get of update_or_create that finds the row
\* and updates it) or two (the get that finds no row, then the create), and
\* other workers run between the two.
Upsert(w) ==
    /\ task[w].pc = "upsert"
    /\ LET t == task[w]
           a == t.obj.zoom_oauth_app
           m == t.zoom_meeting_ids[t.i]
           uc == IF t.missed THEN create_or_update(mappings, a, m, t.cid, now)
                 ELSE update_or_create(mappings, a, m, t.cid, now)
           st == after_update_or_create(UpsertStart(mappings), uc, m, t.cid, a)
       IN  IF t.i > Len(t.zoom_meeting_ids)
           THEN /\ task' = [task EXCEPT ![w].pc = "success"]
                /\ UNCHANGED <<mappings, reports>>
           ELSE IF ~Truthy(m)
           THEN /\ task' = [task EXCEPT ![w].i = t.i + 1]
                /\ UNCHANGED <<mappings, reports>>
           ELSE IF ~t.missed /\ get(mappings, a, m).outcome = "DoesNotExist"
           THEN /\ task' = [task EXCEPT ![w].missed = TRUE]
                /\ UNCHANGED <<mappings, reports>>
           ELSE IF st.outcome = "error"
           THEN /\ task' = [task EXCEPT ![w] = Raise(t, "error", Text("MultipleObjectsReturned"))]
                /\ UNCHANGED <<mappings, reports>>
           ELSE /\ mappings' = st.table
                /\ UNCHANGED reports
                /\ task' = [task EXCEPT ![w].i = t.i + 1, ![w].missed = FALSE]
    /\ UNCHANGED <<apps, conns, queue, runs, webhooks, now, env, px, resp, enq>>

\* The database refuses a statement of the upsert (a lost connection, a lock
\* timeout): the exception leaves the loop.
UpsertFails(w) ==
    /\ task[w].pc = "upsert"
    /\ env.faults
    /\ task[w].i <= Len(task[w].zoom_meeting_ids)
    /\ task' = [task EXCEPT ![w] = Raise(task[w], "error", Text("OperationalError"))]
    /\ UNCHANGED <<apps, conns, mappings, queue, runs, webhooks, now, env, reports, px, resp, enq>>

\* The end of the try block up to the save: last_attempted_sync_at =
\* timezone.now(), the other timestamps, state CONNECTED and failure data None
\* are assigned to the object of the run.
Success(w) ==
    /\ task[w].pc = "success"
    /\ LET t == task[w]
       IN  task' = [task EXCEPT ![w].obj = SuccessObj(t.obj, t.sync_started_at, now),
                                ![w].pc = "success_save"]
    /\ UNCHANGED <<apps, conns, mappings, queue, runs, webhooks, now, env, reports, px, resp, enq>>

\* zoom_oauth_connection.save() at the end of the try block: the object as it
\* was assigned, once the row is not locked by another transaction.
SuccessSave(w) ==
    /\ task[w].pc = "success_save"
    /\ ~Locked(task[w].cid)
    /\ LET t == task[w]
       IN  /\ conns' = Save(conns, t.cid, t.obj)
           /\ task' = [task EXCEPT ![w].pc = "returned"]
           /\ reports' = [k \in MappingKeys |->
                             IF k[1] = t.obj.zoom_oauth_app /\ k[2] \in Range(t.zoom_meeting_ids)
                             THEN Append(reports[k], t.cid) ELSE reports[k]]
    /\ UNCHANGED <<apps, mappings, queue, runs, webhooks, now, env, px, resp, enq>>

\* except ZoomAPIAuthenticationError, up to the save: state DISCONNECTED and
\* the failure data, with the error text and timezone.now(), are assigned to
\* the object of the run.
AuthHandler(w) ==
    /\ task[w].pc = "auth_handler"
    /\ LET t == task[w]
       IN  task' = [task EXCEPT ![w].obj = AuthFailureObj(t.obj, t.error, now),
                                ![w].pc = "auth_save"]
    /\ UNCHANGED <<apps, conns, mappings, queue, runs, webhooks, now, env, reports, px, resp, enq>>

\* zoom_oauth_connection.save() of the handler and the commit of its atomic
\* block, once the row is not locked by another transaction.
AuthSave(w) ==
    /\ task[w].pc = "auth_save"
    /\ ~Locked(task[w].cid)
    /\ conns' = Save(conns, task[w].cid, task[w].obj)
    /\ task' = [task EXCEPT ![w].pc = "auth_webhook"]
    /\ UNCHANGED <<apps, mappings, queue, runs, webhooks, now, env, reports, px, resp, enq>>

\* The rest of the handler, after the transaction of its save has committed:
\* trigger_webhook with the payload built from the object, and the return.
AuthWebhook(w) ==
    /\ task[w].pc = "auth_webhook"
    /\ webhooks' = trigger_webhook(webhooks, ZOOM_OAUTH_CONNECTION_STATE_CHANGE, task[w].cid,
                                   zoom_oauth_connection_webhook_payload(task[w].obj))
    /\ task' = [task EXCEPT ![w].pc = "returned"]
    /\ UNCHANGED <<apps, conns, mappings, queue, runs, now, env, reports, px, resp, enq>>

\* except Exception, up to the save: last_attempted_sync_at = timezone.now()
\* is assigned to the object of the run.
ErrorHandler(w) ==
    /\ task[w].pc = "error_handler"
    /\ LET t == task[w]
       IN  task' = [task EXCEPT ![w].obj = OtherFailureObj(t.obj, now),
                                ![w].pc = "error_save"]
    /\ UNCHANGED <<apps, conns, mappings, queue, runs, webhooks, now, env, reports, px, resp, enq>>

\* zoom_oauth_connection.save() of the handler, once the row is not locked by
\* another transaction, and the exception raised again.
ErrorSave(w) ==
    /\ task[w].pc = "error_save"
    /\ ~Locked(task[w].cid)
    /\ conns' = Save(conns, task[w].cid, task[w].obj)
    /\ task' = [task EXCEPT ![w].pc = "raised"]
    /\ UNCHANGED <<apps, mappings, queue, runs, webhooks, now, env, reports, px, resp, enq>>

\* Celery ends the run: a run that raised is queued again while
\* retries < max_retries (autoretry_for=(Exception,)), a run that returned is
\* finished.
Ack(w) ==
    /\ task[w].pc \in {"returned", "raised"}
    /\ queue' = IF task[w].pc = "raised" /\ Retried(task[w].retries)
                THEN queue (+) SetToBag({<<task[w].cid, task[w].retries + 1>>})
                ELSE queue
    /\ task' = [task EXCEPT ![w] = Idle]
    /\ UNCHANGED <<apps, conns, mappings, runs, webhooks, now, env, reports, px, resp, enq>>

---------------------------------------------------------------------------
(* The task system: the connections of two apps synced by one worker *)

NoResp ==
    [method |-> "", project |-> 0, target |-> 0, status |-> 0, error |-> "",
     results |-> <<>>, id |-> None, zoom_oauth_app |-> None, state |-> ""]
NoPx   == [pc |-> "off"]

InitApps == [a \in AppIds |-> AppRow(a, "client_id", "secret", "webhook_secret")]

\* A connection as the API creates it: CONNECTED, with a refresh token.
NewConn(c) == ConnRow(AppOfConn[c], CONNECTED, NoFailureData, TRUE, 1)

\* The connections of a scenario: those of `existing`; where requests may
\* fail, the first of them is with its credentials, without credentials or with
\* an empty refresh token.
InitConns(existing, scenario) ==
    LET c1 == CHOOSE c \in existing : \A d \in existing : c <= d
    IN  {[c \in ConnIds |-> IF c = c1 THEN first
                            ELSE IF c \in existing THEN NewConn(c) ELSE NoConn] :
            first \in IF scenario.faults
                      THEN {NewConn(c1),
                            [NewConn(c1) EXCEPT !.has_credentials = FALSE, !.refresh_token = None],
                            [NewConn(c1) EXCEPT !.refresh_token = 0]}
                      ELSE {NewConn(c1)}}

InitTasks(workers, existing, scenario) ==
    /\ apps = InitApps
    /\ conns \in InitConns(existing, scenario)
    /\ mappings = NoMappings
    /\ queue = EmptyBag
    /\ task = [w \in workers |-> Idle]
    /\ runs = 0
    /\ webhooks = [c \in ConnIds |-> NoWebhook]
    /\ now = 0
    /\ env = scenario
    /\ reports = [k \in MappingKeys |-> <<>>]
    /\ px = NoPx
    /\ resp = NoResp
    /\ enq = NoEnqueue

Init == InitTasks({1}, {1}, [faults |-> TRUE, rejections |-> FALSE, runs |-> MaxRuns, sweeps |-> 0])

TaskNext ==
    \/ \E c \in ConnIds : EnqueueBegin(c)
    \/ EnqueueDelay
    \/ EnqueueCommit
    \/ \E w \in DOMAIN task : Start(w)
    \/ \E w \in DOMAIN task : Token(w)
    \/ \E w \in DOMAIN task : TokenAnswer(w)
    \/ \E w \in DOMAIN task : Meetings(w)
    \/ \E w \in DOMAIN task : PersonalMeetingId(w)
    \/ \E w \in DOMAIN task : Upsert(w)
    \/ \E w \in DOMAIN task : UpsertFails(w)
    \/ \E w \in DOMAIN task : Success(w)
    \/ \E w \in DOMAIN task : SuccessSave(w)
    \/ \E w \in DOMAIN task : AuthHandler(w)
    \/ \E w \in DOMAIN task : AuthSave(w)
    \/ \E w \in DOMAIN task : AuthWebhook(w)
    \/ \E w \in DOMAIN task : ErrorHandler(w)
    \/ \E w \in DOMAIN task : ErrorSave(w)
    \/ \E w \in DOMAIN task : Ack(w)

Next == TaskNext

Spec == Init /\ [][Next]_vars

\* The syncs of the two connections of app 1 when the provider answers every
\* request, run one after the other by one worker.
InitSeq == InitTasks({1}, {1, 2}, [faults |-> FALSE, rejections |-> FALSE, runs |-> MaxSyncs, sweeps |-> 0])

\* The syncs of the connections of the two apps, one sync for each of two
\* workers that run at once.
InitMap ==
    InitTasks(Workers, {1, 2, 3},
              [faults |-> FALSE, rejections |-> FALSE,
               runs |-> Cardinality(Workers), sweeps |-> 0])

NextMap ==
    \/ \E c \in ConnIds : EnqueueBegin(c)
    \/ EnqueueDelay
    \/ EnqueueCommit
    \/ \E w \in DOMAIN task : Start(w)
    \/ \E w \in DOMAIN task : Token(w)
    \/ \E w \in DOMAIN task : TokenAnswer(w)
    \/ \E w \in DOMAIN task : Meetings(w)
    \/ \E w \in DOMAIN task : PersonalMeetingId(w)
    \/ \E w \in DOMAIN task : Upsert(w)
    \/ \E w \in DOMAIN task : Success(w)
    \/ \E w \in DOMAIN task : SuccessSave(w)
    \/ \E w \in DOMAIN task : Ack(w)

SpecSeq == InitSeq /\ [][NextMap]_vars

SpecMap == InitMap /\ [][NextMap]_vars

---------------------------------------------------------------------------
(* The outcomes of one run *)

\* C1: whenever a run completes all of its steps without an exception, its final
\* save leaves the connection CONNECTED with connection_failure_data None,
\* whatever the state and failure data were before the run.
C1_SuccessConnects ==
    [][\A w \in DOMAIN task :
          /\ Success(w) => (task'[w].pc = "success_save" /\ conns' = conns)
          /\ SuccessSave(w) =>
                /\ task'[w].pc = "returned"
                /\ conns'[task[w].cid].state = CONNECTED
                /\ conns'[task[w].cid].connection_failure_data = NoFailureData]_vars

\* A run of a connection that was DISCONNECTED with failure data has completed
\* and left it CONNECTED without failure data.
C1_Witness ==
    \E w \in DOMAIN task :
        /\ task[w].pc = "returned" /\ task[w].exception = ""
        /\ task[w].pre.state = DISCONNECTED
        /\ ~task[w].pre.connection_failure_data.isNone
        /\ conns[task[w].cid].state = CONNECTED
        /\ conns[task[w].cid].connection_failure_data = NoFailureData

\* C2: when a step raises ZoomAPIAuthenticationError, the handler saves the
\* connection DISCONNECTED with failure data holding the error text and a
\* timestamp, and the task returns, so that the queue does not run it again.
C2_AuthErrorDisconnects ==
    [][\A w \in DOMAIN task :
          /\ (task[w].exception /= "auth" /\ task'[w].exception = "auth")
                => task'[w].pc = "auth_handler" /\ task'[w].error /= NoText
          /\ AuthHandler(w) =>
                /\ task'[w].pc = "auth_save"
                /\ conns' = conns
                /\ task'[w].obj.connection_failure_data
                      = [isNone |-> FALSE, error |-> task[w].error, timestamp |-> now]
          /\ AuthSave(w) =>
                /\ task'[w].pc = "auth_webhook"
                /\ conns'[task[w].cid].state = DISCONNECTED
                /\ conns'[task[w].cid].connection_failure_data
                      = [isNone |-> FALSE, error |-> task[w].error,
                         timestamp |-> task[w].obj.connection_failure_data.timestamp]
          /\ AuthWebhook(w) => (task'[w].pc = "returned" /\ conns' = conns)
          /\ (Ack(w) /\ task[w].pc = "returned") => queue' = queue]_vars

\* A run of a CONNECTED connection has met an authentication error and returned,
\* leaving it DISCONNECTED with failure data.
C2_Witness ==
    \E w \in DOMAIN task :
        /\ task[w].pc = "returned" /\ task[w].exception = "auth"
        /\ task[w].pre.state = CONNECTED
        /\ conns[task[w].cid].state = DISCONNECTED
        /\ ~conns[task[w].cid].connection_failure_data.isNone
        /\ conns[task[w].cid].connection_failure_data.error = task[w].error

\* C3: when a step fails with another exception, the handler updates
\* last_attempted_sync_at and leaves state, connection_failure_data,
\* last_successful_sync_at and last_successful_sync_started_at as they were
\* before the run, and the exception is raised again, so that the queue runs the
\* task again.
C3_OtherErrorReraised ==
    [][\A w \in DOMAIN task :
          /\ (task[w].exception /= "error" /\ task'[w].exception = "error")
                => task'[w].pc = "error_handler"
          /\ ErrorHandler(w) =>
                /\ task'[w].pc = "error_save"
                /\ conns' = conns
                /\ task'[w].obj.last_attempted_sync_at = now
          /\ ErrorSave(w) =>
                /\ task'[w].pc = "raised"
                /\ conns'[task[w].cid].last_attempted_sync_at = task[w].obj.last_attempted_sync_at
                /\ conns'[task[w].cid].state = task[w].pre.state
                /\ conns'[task[w].cid].connection_failure_data
                      = task[w].pre.connection_failure_data
                /\ conns'[task[w].cid].last_successful_sync_at
                      = task[w].pre.last_successful_sync_at
                /\ conns'[task[w].cid].last_successful_sync_started_at
                      = task[w].pre.last_successful_sync_started_at
          /\ (Ack(w) /\ task[w].pc = "raised" /\ task[w].retries < max_retries)
                => CopiesIn(<<task[w].cid, task[w].retries + 1>>, queue')
                      = CopiesIn(<<task[w].cid, task[w].retries + 1>>, queue) + 1]_vars

\* A run of a DISCONNECTED connection never attempted before has failed with
\* another exception: the attempt is recorded, the state and the failure data
\* are those of before the run.
C3_Witness ==
    \E w \in DOMAIN task :
        /\ task[w].pc = "raised" /\ task[w].exception = "error"
        /\ task[w].pre.state = DISCONNECTED
        /\ task[w].pre.last_attempted_sync_at = None
        /\ conns[task[w].cid].last_attempted_sync_at = now
        /\ conns[task[w].cid].state = DISCONNECTED
        /\ conns[task[w].cid].connection_failure_data = task[w].pre.connection_failure_data

\* The meetings of the pages of a listing, in the order the provider sent them.
RECURSIVE Concat(_)
Concat(script) ==
    IF script = <<>> THEN <<>> ELSE script[1].meetings \o Concat(Tail(script))

\* Two workers sync connection 1, whose user has up to MaxListed meetings on
\* up to MaxPages pages, while the requests for the pages may fail.
OrderWorkers == {1, 2}

InitOrder ==
    InitTasks(OrderWorkers, {1}, [faults |-> FALSE, rejections |-> FALSE,
                                  runs |-> Cardinality(OrderWorkers), sweeps |-> 0])

NextOrder ==
    \/ \E c \in ConnIds : EnqueueBegin(c)
    \/ EnqueueDelay
    \/ EnqueueCommit
    \/ \E w \in DOMAIN task : Start(w)
    \/ \E w \in DOMAIN task : Token(w)
    \/ \E w \in DOMAIN task : TokenAnswer(w)
    \/ \E w \in DOMAIN task : MeetingsListed(w)
    \/ \E w \in DOMAIN task : PersonalMeetingId(w)
    \/ \E w \in DOMAIN task : Upsert(w)
    \/ \E w \in DOMAIN task : Success(w)
    \/ \E w \in DOMAIN task : SuccessSave(w)
    \/ \E w \in DOMAIN task : AuthHandler(w)
    \/ \E w \in DOMAIN task : AuthSave(w)
    \/ \E w \in DOMAIN task : AuthWebhook(w)
    \/ \E w \in DOMAIN task : ErrorHandler(w)
    \/ \E w \in DOMAIN task : ErrorSave(w)
    \/ \E w \in DOMAIN task : Ack(w)

SpecOrder == InitOrder /\ [][NextOrder]_vars

\* Over every listing of up to MaxListed meetings the provider serves in full,
\* _get_zoom_meetings returns the meetings of all its pages in the provider's
\* order.
ListingKeepsProvidersOrder ==
    \A script \in PageScripts(HealthyIds, MaxListed, MaxPages) :
        (\A i \in 1 .. Len(script) : script[i].kind = "ok") =>
            /\ _get_zoom_meetings(script).outcome = "return"
            /\ _get_zoom_meetings(script).value = Concat(script)

\* C11: a run that reaches the end of the try block has called the upsert once,
\* with the ids of the meetings the provider listed, in the provider's order,
\* followed by the personal meeting id, also when the provider listed none; a
\* run that raised before the upsert has not called it.
C11_UpsertCalledOnceWithAllIds ==
    /\ ListingKeepsProvidersOrder
    /\ \A w \in DOMAIN task :
          LET t == task[w]
          IN  /\ t.upsert_calls <= 1
              /\ t.zoom_meetings \in {res.value : res \in LongListings}
              /\ (t.pc \in {"upsert", "success", "success_save"} \/ (t.pc = "returned" /\ t.exception = ""))
                    => /\ t.upsert_calls = 1
                       /\ Len(t.zoom_meeting_ids) = Len(t.zoom_meetings) + 1
                       /\ \A i \in 1 .. Len(t.zoom_meetings) : t.zoom_meeting_ids[i] = t.zoom_meetings[i]
                       /\ t.zoom_meeting_ids[Len(t.zoom_meeting_ids)] = t.zoom_personal_meeting_id
              /\ t.pc \in {"token", "token_answer", "meetings", "pmi"} => t.upsert_calls = 0
              /\ (t.pc \in {"auth_handler", "auth_save", "auth_webhook", "error_handler", "error_save", "raised"}
                     /\ t.zoom_meeting_ids = <<>>) => t.upsert_calls = 0

\* Two syncs have completed: for one the provider listed meeting 2 and then
\* meeting 1, and the upsert was called with 2, 1 and the personal meeting id;
\* for the other the provider listed no meeting, and the upsert was called with
\* the personal meeting id alone. Both meetings are mapped.
C11_Witness ==
    \E w1, w2 \in DOMAIN task :
        LET t1 == task[w1]
            t2 == task[w2]
        IN  /\ t1.pc = "returned" /\ t1.exception = ""
            /\ t1.zoom_meetings = <<2, 1>>
            /\ t1.zoom_meeting_ids = <<2, 1, 1>>
            /\ t1.upsert_calls = 1
            /\ t2.pc = "returned" /\ t2.exception = ""
            /\ t2.zoom_meetings = <<>>
            /\ t2.zoom_meeting_ids = <<1>>
            /\ t2.upsert_calls = 1
            /\ mappings[<<t1.obj.zoom_oauth_app, 1>>] /= <<>>
            /\ mappings[<<t1.obj.zoom_oauth_app, 2>>] = <<MappingRow(t1.cid, now)>>

\* C17: the handler of an authentication failure in a sync run first saves
\* the connection DISCONNECTED with failure data, and then triggers one
\* zoom_oauth_connection.state_change webhook for it, whose payload is that of
\* the object saved: state 'disconnected' and the failure data, which is not
\* None; no other step of a sync run triggers a webhook.
C17_AuthFailureTriggersOneWebhook ==
    [][/\ \A w \in DOMAIN task :
            /\ (task[w].pc = "auth_handler" /\ task'[w].pc /= "auth_handler") =>
                  ( /\ task'[w].pc = "auth_save"
                    /\ conns' = conns
                    /\ webhooks' = webhooks )
            /\ (task[w].pc = "auth_save" /\ task'[w].pc /= "auth_save") =>
                  ( /\ task'[w].pc = "auth_webhook"
                    /\ conns'[task[w].cid].state = DISCONNECTED
                    /\ ~conns'[task[w].cid].connection_failure_data.isNone
                    /\ task'[w].obj.connection_failure_data
                          = conns'[task[w].cid].connection_failure_data
                    /\ webhooks' = webhooks )
            /\ (task[w].pc = "auth_webhook" /\ task'[w].pc /= "auth_webhook") =>
                  LET c == task[w].cid
                  IN  /\ task'[w].pc = "returned"
                      /\ webhooks'[c].count = webhooks[c].count + 1
                      /\ webhooks'[c].trigger = ZOOM_OAUTH_CONNECTION_STATE_CHANGE
                      /\ webhooks'[c].payload.state = DISCONNECTED
                      /\ ~webhooks'[c].payload.connection_failure_data.isNone
                      /\ webhooks'[c].payload.connection_failure_data
                             = task[w].obj.connection_failure_data
                      /\ \A d \in ConnIds \ {c} : webhooks'[d] = webhooks[d]
       /\ (webhooks' /= webhooks) =>
            (\E w \in DOMAIN task :
                /\ task[w].pc = "auth_webhook" /\ task'[w].pc = "returned"
                /\ task[w].exception = "auth")
    ]_vars

\* A sync of a connected connection has ended in the authentication handler:
\* the connection is disconnected and the one webhook reports it so.
C17_Witness ==
    \E w \in DOMAIN task :
        LET c == task[w].cid
        IN  /\ task[w].pc = "returned" /\ task[w].exception = "auth"
            /\ task[w].pre.state = CONNECTED
            /\ conns[c].state = DISCONNECTED
            /\ webhooks[c].count = 1
            /\ webhooks[c].payload.state = DISCONNECTED
            /\ webhooks[c].payload.connection_failure_data.error.code = "invalid_grant"

---------------------------------------------------------------------------
(* validate_zoom_oauth_connections_task.py *)

InvalidClientText == "Invalid client_id or client_secret"
NetworkTimeoutText == "Network timeout"

\* needle in text: the parts of a text are whole phrases, so a text contains a
\* phrase when one of its parts is that phrase.
contains(text, needle) == needle \in {text.msg, text.code, text.reason}

\* connection_failure_error = (connection_failure_data or {}).get("error");
\* the result None and the empty text are both falsy (NoText).
connection_failure_error(obj) ==
    IF obj.connection_failure_data.isNone THEN NoText
    ELSE obj.connection_failure_data.error

\* A variant of the two tests that lets every disconnected connection through.
every_disconnected(obj) == TRUE

\* The two tests of the loop: FALSE when one of them says `continue`.
passes_error_tests(obj) ==
    LET error == connection_failure_error(obj)
    IN  /\ error /= NoText
        /\ contains(error, InvalidClientText)

\* ZoomOAuthConnection.objects.filter(zoom_oauth_app=..., state=DISCONNECTED)
disconnected_zoom_oauth_connections(a) ==
    {c \in ConnIds : /\ conns[c].exists
                     /\ conns[c].zoom_oauth_app = a
                     /\ conns[c].state = DISCONNECTED}

\* The orders in which the database may return the rows of a queryset that
\* names no ordering.
RECURSIVE Orders(_)
Orders(S) ==
    IF S = {} THEN {<<>>}
    ELSE UNION {{<<c>> \o rest : rest \in Orders(S \ {c})} : c \in S}

\* _get_access_token(zoom_oauth_connection) as the validation task calls it: the
\* results for every answer of the provider, and a return without an access
\* token (None or "").
Refreshes(obj, app) ==
    {_get_access_token(obj, app, r) : r \in TokenResponses}
    \cup {Result("return", v, NoText, obj, FALSE, TRUE) : v \in {None, 0}}

\* A variant that reconnects but keeps the failure data.
ReconnectedObjKeepingData(obj) == [obj EXCEPT !.state = CONNECTED]

\* The connection object as the loop saves it after a refresh that gave a token.
ReconnectedObj(obj) ==
    [obj EXCEPT !.state = CONNECTED, !.connection_failure_data = NoFailureData]

\* A variant of `continue` that leaves the loop.
leave_loop(p) == [p EXCEPT !.i = Len(p.rows) + 1]

\* `continue`, and the end of an iteration: on to the next row.
next_row(p) == [p EXCEPT !.i = p.i + 1]

\* No validation task runs; n of them have run.
NoSweep(n) == [pc |-> "waiting", sweeps |-> n]

\* The task starts: ZoomOAuthApp.objects.get(id=zoom_oauth_app_id), and the
\* queryset of the app's disconnected connections, evaluated when the loop is
\* entered: every row as it is at that time. The run keeps what the call of
\* _get_access_token under way does with the answer when it arrives, and, as
\* history, the
\* object of the iteration under way once _get_access_token has returned, the
\* connections it called _get_access_token for, how each iteration ended,
\* the connections it triggered a webhook for,
\* and the client secret each request of a refresh was sent with.
Sweep(n, a, order) ==
    [pc |-> "loop", sweeps |-> n, zoom_oauth_app_id |-> a,
     rows |-> [j \in 1 .. Len(order) |-> [id |-> order[j], obj |-> conns[order[j]]]],
     i |-> 1, obj |-> NoConn, res |-> NoResult, attempted |-> {}, ended |-> <<>>,
     triggered |-> <<>>, used |-> <<>>]

ValidateStart(a) ==
    /\ px.pc \in {"waiting", "returned"}
    /\ px.sweeps < env.sweeps
    /\ apps[a].exists
    /\ \E order \in Orders(disconnected_zoom_oauth_connections(a)) :
         px' = Sweep(px.sweeps + 1, a, order)
    /\ UNCHANGED <<apps, conns, mappings, queue, task, runs, webhooks, now, env, reports, resp, enq>>

\* The start of an iteration of the loop over the rows: the two tests and the
\* call of _get_access_token up to the request, which is sent with the client
\* id and the client secret of the app row as it is now. A row that fails a
\* test and a call that finds a field missing (the except clause) end the
\* iteration.
ValidateConnection ==
    /\ px.pc = "loop"
    /\ px.i <= Len(px.rows)
    /\ LET c   == px.rows[px.i].id
           obj == px.rows[px.i].obj
       IN  IF ~passes_error_tests(obj)
           THEN px' = next_row([px EXCEPT !.ended = Append(@, "skipped")])
           ELSE \E res \in Refreshes(obj, apps[obj.zoom_oauth_app]) :
                  LET tried == [px EXCEPT !.attempted = @ \cup {c},
                                          !.used = IF res.sent
                                                   THEN Append(@, apps[obj.zoom_oauth_app].client_secret)
                                                   ELSE @]
                  IN  IF res.sent
                      THEN px' = [tried EXCEPT !.res = res, !.pc = "refresh"]
                      ELSE px' = next_row([tried EXCEPT !.ended = Append(@, "raised")])
    /\ UNCHANGED <<apps, conns, mappings, queue, task, runs, webhooks, now, env, reports, resp, enq>>

\* The answer has arrived: the rest of _get_access_token, which saves a rotated
\* refresh token, and the test of the access token. A refresh that raises (the
\* except clause) and a falsy access token end the iteration.
ValidateRefreshed ==
    /\ px.pc = "refresh"
    /\ LET c    == px.rows[px.i].id
           res  == px.res
           back == [px EXCEPT !.res = NoResult, !.pc = "loop"]
       IN  IF res.outcome /= "return"
           THEN /\ px' = next_row([back EXCEPT !.ended = Append(@, "raised")])
                /\ UNCHANGED conns
           ELSE IF ~Truthy(res.value)
           THEN /\ px' = next_row([back EXCEPT !.ended = Append(@, "no_token")])
                /\ UNCHANGED conns
           ELSE /\ res.saved => ~Locked(c)
                /\ conns' = IF res.saved THEN Save(conns, c, res.obj) ELSE conns
                /\ px' = [back EXCEPT !.obj = res.obj, !.pc = "save"]
    /\ UNCHANGED <<apps, mappings, queue, task, runs, webhooks, now, env, reports, resp, enq>>

\* state = CONNECTED, connection_failure_data = None and save(), which is
\* committed at once.
ValidateSave ==
    /\ px.pc = "save"
    /\ LET c     == px.rows[px.i].id
           saved == ReconnectedObj(px.obj)
       IN  /\ ~Locked(c)
           /\ conns' = Save(conns, c, saved)
           /\ px' = [px EXCEPT !.obj = saved, !.pc = "webhook"]
    /\ UNCHANGED <<apps, mappings, queue, task, runs, webhooks, now, env, reports, resp, enq>>

\* trigger_webhook with the payload built from the object, and the end of the
\* iteration.
ValidateWebhook ==
    /\ px.pc = "webhook"
    /\ LET c == px.rows[px.i].id
       IN  /\ webhooks' = trigger_webhook(webhooks, ZOOM_OAUTH_CONNECTION_STATE_CHANGE, c,
                                          zoom_oauth_connection_webhook_payload(px.obj))
           /\ px' = next_row([px EXCEPT !.ended = Append(@, "reconnected"),
                                        !.triggered = Append(@, c), !.obj = NoConn,
                                        !.pc = "loop"])
    /\ UNCHANGED <<apps, conns, mappings, queue, task, runs, now, env, reports, resp, enq>>

\* The loop is over: the task returns.
ValidateReturn ==
    /\ px.pc = "loop"
    /\ px.i > Len(px.rows)
    /\ px' = [px EXCEPT !.pc = "returned"]
    /\ UNCHANGED <<apps, conns, mappings, queue, task, runs, webhooks, now, env, reports, resp, enq>>

\* The states of a connection when the validation starts: connected;
\* disconnected without failure data; disconnected with another error;
\* disconnected with the error text of the tests; disconnected by a sync whose
\* refresh the provider rejected with invalid_client.
SweepConns(c) ==
    {NewConn(c),
     [NewConn(c) EXCEPT !.state = DISCONNECTED],
     [NewConn(c) EXCEPT !.state = DISCONNECTED,
                        !.connection_failure_data = FailureData(Text(NetworkTimeoutText), 0)],
     [NewConn(c) EXCEPT !.state = DISCONNECTED,
                        !.connection_failure_data = FailureData(Text(InvalidClientText), 0)],
     AuthFailureObj(NewConn(c),
                    AuthErrorText([error |-> "invalid_client", reason |-> InvalidClientText]), 0)}

\* The workers that sync beside the validation task, one sync each.
SweepWorkers == {1}

\* Connection 1 of app 1 in any of the states the tests construct (the state a
\* rejected sync leaves is reached by the sync of the scenario), connection 2
\* of app 1 connected or disconnected with the error text of the tests, and a
\* connection of app 2 disconnected with that text; one worker syncs users
\* that have no scheduled meeting, the provider rejects some refreshes of the
\* syncs, and the validation task is run for an app.
InitSweep ==
    /\ apps = InitApps
    /\ conns \in {[c \in ConnIds |-> IF c = 1 THEN c1 ELSE IF c = 2 THEN c2
                                     ELSE IF c = 3 THEN c3 ELSE NoConn] :
                     c1 \in {x \in SweepConns(1) : x.connection_failure_data.error.code = ""},
                     c2 \in {x \in SweepConns(2) :
                                \/ x.state = CONNECTED
                                \/ passes_error_tests(x) /\ x.connection_failure_data.error.code = ""},
                     c3 \in {x \in SweepConns(3) : passes_error_tests(x) /\ x.connection_failure_data.error.code = ""}}
    /\ mappings = NoMappings
    /\ queue = EmptyBag
    /\ task = [w \in SweepWorkers |-> Idle]
    /\ runs = 0
    /\ webhooks = [c \in ConnIds |-> NoWebhook]
    /\ now = 1
    /\ env = [faults |-> FALSE, rejections |-> TRUE, runs |-> Cardinality(SweepWorkers),
              sweeps |-> MaxSweeps]
    /\ reports = [k \in MappingKeys |-> <<>>]
    /\ px = NoSweep(0)
    /\ resp = NoResp
    /\ enq = NoEnqueue

NextSweep ==
    \/ \E a \in AppIds : ValidateStart(a)
    \/ ValidateConnection
    \/ ValidateRefreshed
    \/ ValidateSave
    \/ ValidateWebhook
    \/ ValidateReturn
    \/ \E c \in ConnIds : EnqueueBegin(c)
    \/ EnqueueDelay
    \/ EnqueueCommit
    \/ \E w \in DOMAIN task : Start(w)
    \/ \E w \in DOMAIN task : Token(w)
    \/ \E w \in DOMAIN task : TokenAnswer(w)
    \/ \E w \in DOMAIN task : Meetings(w)
    \/ \E w \in DOMAIN task : PersonalMeetingId(w)
    \/ \E w \in DOMAIN task : Upsert(w)
    \/ \E w \in DOMAIN task : Success(w)
    \/ \E w \in DOMAIN task : SuccessSave(w)
    \/ \E w \in DOMAIN task : AuthHandler(w)
    \/ \E w \in DOMAIN task : AuthSave(w)
    \/ \E w \in DOMAIN task : AuthWebhook(w)
    \/ \E w \in DOMAIN task : Ack(w)

SpecSweep == InitSweep /\ [][NextSweep]_vars

\* A step of the validation task.
SweepStep == px' /= px /\ px.pc \in {"loop", "refresh", "save", "webhook"}

\* A step that ends an iteration of the loop: on to the next row.
IterationEnds == SweepStep /\ px'.i = px.i + 1

\* How the iteration that a step ends has ended.
EndedAs == px'.ended[Len(px'.ended)]

\* C12: an iteration of the validation loop calls _get_access_token only for a
\* row that, as the queryset returned it, belongs to the task's app, is
\* DISCONNECTED and has failure data whose error contains 'Invalid client_id or
\* client_secret'; for a row of any other kind it calls nothing and ends, and
\* no step of the task changes the row or the webhooks of a connection other
\* than the one it refreshed.
C12_OnlyEligibleRefreshed ==
    [][SweepStep =>
          LET c   == px.rows[px.i].id
              obj == px.rows[px.i].obj
              eligible ==
                  /\ obj.zoom_oauth_app = px.zoom_oauth_app_id
                  /\ obj.state = DISCONNECTED
                  /\ ~obj.connection_failure_data.isNone
                  /\ InvalidClientText \in {obj.connection_failure_data.error.msg,
                                            obj.connection_failure_data.error.code,
                                            obj.connection_failure_data.error.reason}
          IN  /\ (px.pc = "loop" /\ px.i <= Len(px.rows)) =>
                    (px'.attempted \ px.attempted = (IF eligible THEN {c} ELSE {}))
              /\ (px.pc /= "loop") => (px'.attempted = px.attempted /\ c \in px.attempted)
              /\ (px.i <= Len(px.rows)) =>
                    (\A d \in ConnIds :
                        (d /= c \/ ~eligible) => ( /\ conns'[d] = conns[d]
                                                  /\ webhooks'[d] = webhooks[d] ))
              /\ (px.i <= Len(px.rows) /\ ~eligible) => IterationEnds
              /\ \A d \in px'.attempted :
                    \E j \in 1 .. Len(px.rows) : px.rows[j].id = d /\ px.rows[j].obj.state = DISCONNECTED
    ]_vars

\* A validation of app 1 has returned: it skipped one of the two disconnected
\* connections of the app and refreshed the other, and the connection of app 2
\* that passes the tests is still disconnected.
C12_Witness ==
    /\ px.pc = "returned"
    /\ px.zoom_oauth_app_id = 1
    /\ Len(px.rows) = 2
    /\ "skipped" \in Range(px.ended)
    /\ Cardinality(px.attempted) = 1
    /\ conns[3].state = DISCONNECTED /\ passes_error_tests(conns[3])
    /\ webhooks[3].count = 0

\* C13: an iteration whose refresh gave an access token saves the connection
\* CONNECTED with failure data None, and then triggers one
\* zoom_oauth_connection.state_change webhook for it whose payload is that of
\* the object saved; a validation run has triggered as many webhooks as it has
\* reconnected connections, one for each.
C13_ReconnectTriggersOneWebhook ==
    [][SweepStep =>
          LET c == px.rows[px.i].id
          IN  /\ (px.pc \in {"loop", "refresh"}) =>
                    (webhooks' = webhooks /\ px'.triggered = px.triggered)
              /\ (px.pc = "save") =>
                    ( /\ px'.pc = "webhook"
                      /\ conns'[c].state = CONNECTED
                      /\ conns'[c].connection_failure_data = NoFailureData
                      /\ webhooks' = webhooks /\ px'.triggered = px.triggered )
              /\ (px.pc = "webhook") =>
                    ( /\ IterationEnds /\ EndedAs = "reconnected"
                      /\ conns' = conns
                      /\ webhooks'[c].count = webhooks[c].count + 1
                      /\ webhooks'[c].trigger = ZOOM_OAUTH_CONNECTION_STATE_CHANGE
                      /\ webhooks'[c].payload = [state |-> CONNECTED,
                                                 connection_failure_data |-> NoFailureData]
                      /\ px'.triggered = Append(px.triggered, c) )
              /\ IterationEnds =>
                    ( /\ (EndedAs = "reconnected") <=> (px.pc = "webhook")
                      /\ (EndedAs = "reconnected") <=> (Len(px'.triggered) = Len(px.triggered) + 1)
                      /\ Len(px'.triggered)
                            = Cardinality({j \in 1 .. Len(px'.ended) : px'.ended[j] = "reconnected"})
                      /\ Cardinality(Range(px'.triggered)) = Len(px'.triggered) )
              /\ (px.i <= Len(px.rows)) => (\A d \in ConnIds \ {c} : webhooks'[d] = webhooks[d])
    ]_vars

\* A validation of app 1 has reconnected both connections of the app and
\* triggered one webhook for each.
C13_Witness ==
    /\ px.pc = "returned"
    /\ px.ended = <<"reconnected", "reconnected">>
    /\ Len(px.triggered) = 2
    /\ \A c \in {1, 2} : /\ conns[c].state = CONNECTED
                         /\ conns[c].connection_failure_data = NoFailureData
                         /\ webhooks[c].count = 1
                         /\ webhooks[c].payload.state = CONNECTED

\* C14: an iteration whose refresh raised or gave no access token changes no
\* row and triggers no webhook, and the loop goes on with the next row; a
\* validation run that returns has dealt with every row of its queryset and has
\* called _get_access_token for every row that passes the two tests.
C14_FailureDoesNotStopTheSweep ==
    [][/\ (IterationEnds /\ EndedAs \in {"raised", "no_token"}) =>
            /\ px.pc \in {"loop", "refresh"}
            /\ conns' = conns
            /\ webhooks' = webhooks
            /\ px'.triggered = px.triggered
       /\ px'.pc = "returned" =>
            /\ Len(px'.ended) = Len(px'.rows)
            /\ \A j \in 1 .. Len(px'.rows) :
                  passes_error_tests(px'.rows[j].obj) => px'.rows[j].id \in px'.attempted
       /\ px'.pc \in {"waiting", "loop", "refresh", "save", "webhook", "returned"}
    ]_vars

\* A validation has returned whose first refresh raised and whose second
\* refresh reconnected the connection: the first connection is as it was.
C14_Witness ==
    /\ px.pc = "returned"
    /\ px.ended = <<"raised", "reconnected">>
    /\ conns[px.rows[1].id] = px.rows[1].obj
    /\ conns[px.rows[1].id].state = DISCONNECTED
    /\ webhooks[px.rows[1].id].count = 0
    /\ conns[px.rows[2].id].state = CONNECTED

\* C15: a connection that a sync disconnected because the provider rejected
\* the refresh with the error code invalid_client passes the two tests of the
\* validation loop.
C15_InvalidClientIsValidated ==
    \A c \in ConnIds :
        (/\ conns[c].exists
         /\ conns[c].state = DISCONNECTED
         /\ ~conns[c].connection_failure_data.isNone
         /\ conns[c].connection_failure_data.error.code = "invalid_client")
            => passes_error_tests(conns[c])

\* C16: every step of the sync task or of the validation task that changes the
\* state of a connection is a save whose task goes on to trigger a
\* zoom_oauth_connection.state_change webhook for that connection: the save of
\* the authentication handler, or the save of a validation iteration.
C16_EveryStateChangeTriggersWebhook ==
    [][\A c \in ConnIds :
          (conns[c].exists /\ conns'[c].exists /\ conns'[c].state /= conns[c].state)
              => \/ \E w \in DOMAIN task : /\ task[w].pc = "auth_save"
                                      /\ task'[w].pc = "auth_webhook"
                                      /\ task[w].cid = c
                 \/ /\ px.pc = "save" /\ px'.pc = "webhook"
                    /\ px.rows[px.i].id = c
    ]_vars

---------------------------------------------------------------------------
(* The REST views on zoom_oauth_connections, called with the API key of a
   project *)

Projects == {1, 2}

HTTP_200_OK          == 200
HTTP_201_CREATED     == 201
HTTP_400_BAD_REQUEST == 400
HTTP_404_NOT_FOUND   == 404

NotFoundError        == "Zoom OAuth Connection not found"
AppNotInProjectError == "Zoom OAuth App does not exist in this project"
ExchangeError        == "Error exchanging access code for tokens"
MissingScopesError   == "missing the following required scopes"
InactiveUserError    == "user is not active"

\* What the provider answers to the exchange of the authorization code and to
\* the request for the user: tokens with the required scopes for an active
\* user, a refusal of the code, tokens without the required scopes, or a user
\* who is not active.
CodeExchanges == {"tokens", "refused", "missing_scopes", "inactive_user"}

\* The connections in S from the latest created to the first (ordering
\* "-created_at"; ids are given in the order of creation).
RECURSIVE Ordered(_)
Ordered(S) ==
    IF S = {} THEN <<>>
    ELSE LET c == CHOOSE x \in S : \A y \in S : y <= x
         IN  <<c>> \o Ordered(S \ {c})

\* Variants of the lookups that do not look at the project.
all_connections(project) == {c \in ConnIds : conns[c].exists}

any_connection(project, object_id) == conns[object_id].exists

any_zoom_oauth_app(project, a) == apps[a].exists

\* The queryset of the list view: the connections whose app is of the project.
get_queryset(project) ==
    {c \in ConnIds : conns[c].exists /\ apps[conns[c].zoom_oauth_app].project = project}

\* The lookup of the detail view: a connection with this object id whose app
\* is of the project.
get_zoom_oauth_connection(project, object_id) ==
    conns[object_id].exists /\ apps[conns[object_id].zoom_oauth_app].project = project

\* The lookup of create_zoom_oauth_connection: a Zoom OAuth app with this id in
\* the project.
get_zoom_oauth_app(project, a) == apps[a].exists /\ apps[a].project = project

Response(method, project, target, status, error) ==
    [NoResp EXCEPT !.method = method, !.project = project, !.target = target,
                   !.status = status, !.error = error]

Serialized(r, c) ==
    [r EXCEPT !.id = c, !.zoom_oauth_app = conns[c].zoom_oauth_app, !.state = conns[c].state]

\* GET zoom_oauth_connections: the first page of the project's connections.
List(project) ==
    /\ LET all == Ordered(get_queryset(project))
           n   == IF Len(all) < page_size THEN Len(all) ELSE page_size
       IN  resp' = [Response("LIST", project, 0, HTTP_200_OK, "") EXCEPT
                       !.results = SubSeq(all, 1, n)]
    /\ UNCHANGED <<apps, conns, mappings, queue, task, runs, webhooks, now, env, reports, px, enq>>

\* GET zoom_oauth_connections/<object_id>
Detail(project, object_id) ==
    /\ resp' = IF get_zoom_oauth_connection(project, object_id)
               THEN Serialized(Response("GET", project, object_id, HTTP_200_OK, ""), object_id)
               ELSE Response("GET", project, object_id, HTTP_404_NOT_FOUND, NotFoundError)
    /\ UNCHANGED <<apps, conns, mappings, queue, task, runs, webhooks, now, env, reports, px, enq>>

\* DELETE zoom_oauth_connections/<object_id>; the delete of a row waits for
\* the transaction that holds its lock.
Delete(project, object_id) ==
    /\ get_zoom_oauth_connection(project, object_id) => ~Locked(object_id)
    /\ IF get_zoom_oauth_connection(project, object_id)
       THEN /\ conns' = [conns EXCEPT ![object_id] = NoConn]
            /\ resp' = Response("DELETE", project, object_id, HTTP_200_OK, "")
       ELSE /\ resp' = Response("DELETE", project, object_id, HTTP_404_NOT_FOUND, NotFoundError)
            /\ UNCHANGED conns
    /\ UNCHANGED <<apps, mappings, queue, task, runs, webhooks, now, env, reports, px, enq>>

\* create_zoom_oauth_connection(data, project) for the app id of the request
\* and the provider's answer to the exchange of the authorization code: the id
\* and the row of the connection created, or the error.
create_zoom_oauth_connection(a, exchanged, project) ==
    LET free == {c \in ConnIds : ~conns[c].exists}
        c    == CHOOSE x \in free : \A y \in free : x <= y
    IN  IF ~get_zoom_oauth_app(project, a)
        THEN [error |-> AppNotInProjectError, id |-> None, row |-> NoConn]
        ELSE IF exchanged = "refused"
        THEN [error |-> ExchangeError, id |-> None, row |-> NoConn]
        ELSE IF exchanged = "missing_scopes"
        THEN [error |-> MissingScopesError, id |-> None, row |-> NoConn]
        ELSE IF exchanged = "inactive_user"
        THEN [error |-> InactiveUserError, id |-> None, row |-> NoConn]
        ELSE [error |-> "", id |-> c, row |-> ConnRow(a, CONNECTED, NoFailureData, TRUE, 1)]

\* The answer to a request whose view raised.
HTTP_500_INTERNAL_SERVER_ERROR == 500

\* POST zoom_oauth_connections: create_zoom_oauth_connection, which saves the
\* connection it creates, and the response 400 on its error. Of a request
\* that goes on, px keeps the project, the app and the connection object.
post(project, a, exchanged) ==
    /\ px.pc = "off"
    /\ runs + BagCardinality(queue) < env.runs
    /\ \E c \in ConnIds : ~conns[c].exists
    /\ LET made == create_zoom_oauth_connection(a, exchanged, project)
       IN  IF made.error /= ""
           THEN /\ resp' = Response("POST", project, a, HTTP_400_BAD_REQUEST, made.error)
                /\ UNCHANGED <<conns, px>>
           ELSE /\ conns' = Save(conns, made.id, made.row)
                /\ px' = [pc |-> "enqueue", project |-> project, a |-> a, id |-> made.id,
                          obj |-> made.row]
                /\ UNCHANGED resp
    /\ UNCHANGED <<apps, mappings, queue, task, runs, webhooks, now, env, reports, enq>>

\* enqueue_sync_zoom_oauth_connection_task(zoom_oauth_connection), called by
\* the view with the object it created.
PostEnqueue ==
    /\ px.pc = "enqueue"
    /\ EnqueueCall(px.id, px.obj)
    /\ px' = [px EXCEPT !.pc = "respond"]
    /\ UNCHANGED <<apps, conns, mappings, queue, task, runs, webhooks, now, env, reports, resp>>

\* The call has returned: the response 201 with the serialized object; or it
\* has raised, and the exception leaves the view.
PostRespond ==
    /\ px.pc = "respond"
    /\ enq.pc \in {"returned", "raised"}
    /\ resp' = IF enq.pc = "returned"
               THEN [Response("POST", px.project, px.a, HTTP_201_CREATED, "") EXCEPT
                        !.id = px.id, !.zoom_oauth_app = px.obj.zoom_oauth_app,
                        !.state = px.obj.state]
               ELSE [Response("POST", px.project, px.a, HTTP_500_INTERNAL_SERVER_ERROR, "") EXCEPT
                        !.id = px.id]
    /\ px' = NoPx
    /\ UNCHANGED <<apps, conns, mappings, queue, task, runs, webhooks, now, env, reports, enq>>

\* Any connections of the two projects; the broker and the database may fail
\* a call of the enqueueing.
InitApi ==
    /\ apps = InitApps
    /\ conns \in [ConnIds -> {NoConn} \cup {NewConn(c) : c \in ConnIds}]
    /\ \A c \in ConnIds : conns[c].exists => conns[c] = NewConn(c)
    /\ mappings = NoMappings
    /\ queue = EmptyBag
    /\ task = [w \in {} |-> Idle]
    /\ runs = 0
    /\ webhooks = [c \in ConnIds |-> NoWebhook]
    /\ now = 0
    /\ env = [faults |-> TRUE, rejections |-> FALSE, runs |-> 1, sweeps |-> 0]
    /\ reports = [k \in MappingKeys |-> <<>>]
    /\ px = NoPx
    /\ resp = NoResp
    /\ enq = NoEnqueue

NextApi ==
    \/ \E project \in Projects : List(project)
    \/ \E project \in Projects, c \in ConnIds : Detail(project, c)
    \/ \E project \in Projects, c \in ConnIds : Delete(project, c)
    \/ \E project \in Projects, a \in AppIds, exchanged \in CodeExchanges : post(project, a, exchanged)
    \/ PostEnqueue
    \/ EnqueueDelay
    \/ EnqueueCommit
    \/ PostRespond

SpecApi == InitApi /\ [][NextApi]_vars

\* C4: whatever the key and the connections of the database, the list holds
\* exactly the connections whose app is of the key's project.
C4_ListIsProjectScoped ==
    [][\A project \in Projects :
          List(project) =>
              /\ resp'.method = "LIST" /\ resp'.project = project
              /\ resp'.status = HTTP_200_OK
              /\ Range(resp'.results)
                    = {c \in ConnIds : conns[c].exists
                                         /\ apps[conns[c].zoom_oauth_app].project = project}
      ]_vars

\* Both projects hold several connections, and the list of one of them holds
\* its connections only.
C4_Witness ==
    /\ resp.method = "LIST"
    /\ Len(resp.results) >= 2
    /\ Cardinality({c \in ConnIds : conns[c].exists
                      /\ apps[conns[c].zoom_oauth_app].project /= resp.project}) >= 2

\* C5: a GET or a DELETE by a key of one project for a connection of another
\* project is answered as for an id that does not exist, 404 "Zoom OAuth
\* Connection not found", and changes no connection; the owner's key gets it
\* with 200 and deletes it with 200.
C5_OtherProjectsObjectNotFound ==
    [][\A project \in Projects, c \in ConnIds :
          (Detail(project, c) \/ Delete(project, c)) =>
              IF conns[c].exists /\ apps[conns[c].zoom_oauth_app].project = project
              THEN /\ resp'.status = HTTP_200_OK
                   /\ resp'.method = "DELETE" => ~conns'[c].exists
                   /\ \A d \in ConnIds \ {c} : conns'[d] = conns[d]
              ELSE /\ resp'.status = HTTP_404_NOT_FOUND
                   /\ resp'.error = NotFoundError
                   /\ resp' = Response(resp'.method, project, c, HTTP_404_NOT_FOUND, NotFoundError)
                   /\ conns' = conns]_vars

\* The key of project 1 has asked to delete a connection of project 2, was
\* answered 404, and the connection is there.
C5_Witness ==
    /\ resp.method = "DELETE" /\ resp.project = 1
    /\ resp.status = HTTP_404_NOT_FOUND
    /\ conns[resp.target] = NewConn(resp.target)
    /\ apps[conns[resp.target].zoom_oauth_app].project = 2

\* C6: a POST by a key of one project with the id of an app of another project
\* is answered 400 with an error saying that the app does not exist in this
\* project and creates no connection; a POST answered 201 has created a
\* connection of an app of the key's project.
C6_CreateIsProjectScoped ==
    [][ /\ \A project \in Projects, a \in AppIds, exchanged \in CodeExchanges :
            post(project, a, exchanged) =>
                /\ (apps[a].project /= project) =>
                      ( /\ resp'.status = HTTP_400_BAD_REQUEST
                        /\ resp'.error = AppNotInProjectError
                        /\ conns' = conns
                        /\ px' = px )
                /\ (conns' /= conns) =>
                      ( /\ px'.pc = "enqueue" /\ px'.project = project
                        /\ ~conns[px'.id].exists /\ conns'[px'.id].exists
                        /\ apps[conns'[px'.id].zoom_oauth_app].project = project
                        /\ \A d \in ConnIds \ {px'.id} : conns'[d] = conns[d] )
        /\ PostRespond =>
              ( /\ resp'.status \in {HTTP_201_CREATED, HTTP_500_INTERNAL_SERVER_ERROR}
                /\ resp'.project = px.project
                /\ (resp'.status = HTTP_201_CREATED) =>
                      ( /\ resp'.id = px.id
                        /\ apps[resp'.zoom_oauth_app].project = px.project ) )
      ]_vars

\* The key of project 1 has posted the id of the app of project 2 with a code
\* the provider accepts, was answered 400, and project 2 has no connection.
C6_Witness ==
    /\ resp.method = "POST" /\ resp.project = 1 /\ resp.target = 2
    /\ resp.status = HTTP_400_BAD_REQUEST /\ resp.error = AppNotInProjectError
    /\ \A c \in ConnIds : conns[c].exists => apps[conns[c].zoom_oauth_app].project = 1

---------------------------------------------------------------------------
(* The mapping table under syncs *)

\* C8: in every reachable state of the syncs of the connections of two apps run
\* by two workers at once, a pair (app, meeting id) has at most one mapping row,
\* also when a list holds an id twice and when two connections of one app
\* report the same meeting.
C8_OneMappingPerMeeting ==
    \A k \in MappingKeys : Len(mappings[k]) <= 1

\* Two syncs of two connections of one app overlap on a meeting: one has found
\* no row for it and is about to create one, the other, which lists the meeting
\* twice, has created the row meanwhile.
C8_Witness ==
    \E w1, w2 \in DOMAIN task :
        LET t1 == task[w1]
            t2 == task[w2]
            m  == t1.zoom_meeting_ids[t1.i]
        IN  /\ t1.pc = "upsert" /\ t1.missed
            /\ t2.pc \in {"upsert", "success", "success_save", "returned"}
            /\ t1.cid /= t2.cid
            /\ t1.obj.zoom_oauth_app = t2.obj.zoom_oauth_app
            /\ t2.zoom_meeting_ids = <<m, m>>
            /\ t2.i > 1
            /\ mappings[<<t1.obj.zoom_oauth_app, m>>] = <<MappingRow(t2.cid, now)>>

\* C9: when syncs run one after the other and all succeed, between two syncs the
\* mapping of every meeting reported so far points to the connection of the
\* latest sync that listed it.
C9_MappingFollowsLatestReport ==
    (\A w \in DOMAIN task : task[w].pc \notin {"upsert", "success", "success_save"}) =>
        \A k \in MappingKeys :
            reports[k] /= <<>> =>
                /\ Len(mappings[k]) = 1
                /\ mappings[k][1].zoom_oauth_connection = reports[k][Len(reports[k])]

\* Connection 1, then connection 2, then connection 1 again have reported a
\* meeting of their app, and the mapping points to connection 1.
C9_Witness ==
    \E k \in MappingKeys :
        /\ reports[k] = <<1, 2, 1>>
        /\ mappings[k] = <<MappingRow(1, now)>>
        /\ \A w \in DOMAIN task : task[w].pc = "idle"

---------------------------------------------------------------------------
(* The mapping upsert as a function: one call, then the same call again *)

\* The tables with at most one row per (app, meeting id), each row pointing to a
\* connection of its app and created at time 0.
MappingTables ==
    [MappingKeys -> {<<>>} \cup {<<MappingRow(c, 0)>> : c \in ConnIds}]

WellFormed(table) ==
    \A k \in MappingKeys :
        table[k] /= <<>> => AppOfConn[table[k][1].zoom_oauth_connection] = k[1]

InitUpsert ==
    /\ apps = InitApps
    /\ conns = [c \in ConnIds |-> NewConn(c)]
    /\ mappings \in {table \in MappingTables : WellFormed(table)}
    /\ queue = EmptyBag
    /\ task = [w \in {} |-> Idle]
    /\ runs = 0
    /\ webhooks = [c \in ConnIds |-> NoWebhook]
    /\ now = 1
    /\ env = [faults |-> FALSE, rejections |-> FALSE, runs |-> 0, sweeps |-> 0]
    /\ reports = [k \in MappingKeys |-> <<>>]
    /\ px \in {[pc |-> "input", ids |-> ids, c |-> c, before |-> NoMappings, once |-> NoMappings] :
                  ids \in SeqsUpTo(MeetingIdValues, MaxListLen + 1), c \in ConnIds}
    /\ resp = NoResp
    /\ enq = NoEnqueue

\* _upsert_zoom_meeting_to_zoom_oauth_connection_mapping(ids, c)
UpsertOnce ==
    /\ px.pc = "input"
    /\ LET res == _upsert_zoom_meeting_to_zoom_oauth_connection_mapping(
                      mappings, px.ids, px.c, conns[px.c].zoom_oauth_app, now)
       IN  /\ mappings' = res.table
           /\ px' = [px EXCEPT !.pc = "once", !.before = mappings, !.once = res.table]
    /\ UNCHANGED <<apps, conns, queue, task, runs, webhooks, now, env, reports, resp, enq>>

\* The same call again.
UpsertTwice ==
    /\ px.pc = "once"
    /\ LET res == _upsert_zoom_meeting_to_zoom_oauth_connection_mapping(
                      mappings, px.ids, px.c, conns[px.c].zoom_oauth_app, now)
       IN  /\ mappings' = res.table
           /\ px' = [px EXCEPT !.pc = "twice"]
    /\ UNCHANGED <<apps, conns, queue, task, runs, webhooks, now, env, reports, resp, enq>>

NextUpsert == UpsertOnce \/ UpsertTwice

SpecUpsert == InitUpsert /\ [][NextUpsert]_vars

\* The mapping of meeting m of app a points to connection c.
MapsTo(table, a, m, c) ==
    /\ <<a, m>> \in DOMAIN table
    /\ \E i \in 1 .. Len(table[<<a, m>>]) : table[<<a, m>>][i].zoom_oauth_connection = c

\* C7: after the upsert of ids for connection c, every id of the list that is
\* not None has a mapping (app of c, id) pointing to c.
C7_EveryNonNullIdMapped ==
    px.pc \in {"once", "twice"} =>
        \A i \in 1 .. Len(px.ids) :
            px.ids[i] /= None => MapsTo(mappings, conns[px.c].zoom_oauth_app, px.ids[i], px.c)

\* C10: the second call leaves the table as the first call left it, and a call
\* leaves a mapping that already pointed to the connection as it was, creation
\* time included, and adds no second row to a pair.
C10_UpsertIdempotent ==
    /\ px.pc = "twice" => mappings = px.once
    /\ px.pc \in {"once", "twice"} =>
          \A k \in MappingKeys :
              /\ Len(mappings[k]) <= 1
              /\ (px.before[k] /= <<>> /\ px.before[k][1].zoom_oauth_connection = px.c)
                    => mappings[k] = px.before[k]

\* The call was made twice with two ids, one whose mapping already pointed to
\* the connection and one that had no mapping, which the first call created.
C10_Witness ==
    /\ px.pc = "twice"
    /\ \E i, j \in 1 .. Len(px.ids) :
          LET a == conns[px.c].zoom_oauth_app
          IN  /\ Truthy(px.ids[i]) /\ Truthy(px.ids[j])
              /\ px.before[<<a, px.ids[i]>>] = <<MappingRow(px.c, 0)>>
              /\ mappings[<<a, px.ids[i]>>] = <<MappingRow(px.c, 0)>>
              /\ px.before[<<a, px.ids[j]>>] = <<>>
              /\ mappings[<<a, px.ids[j]>>] = <<MappingRow(px.c, now)>>

---------------------------------------------------------------------------
(* _get_access_token applied to every connection, app and answer *)

\* The connection whose token is refreshed: without credentials, or with
\* credentials whose refresh token is absent, empty or a token.
TokenConns ==
    {[NewConn(1) EXCEPT !.has_credentials = FALSE, !.refresh_token = None]}
    \cup {[NewConn(1) EXCEPT !.refresh_token = rt] : rt \in TokenValues}

\* Its app: client id and client secret are empty or set.
TokenApps ==
    {AppRow(1, cid, secret, "webhook_secret") : cid \in {"", "client_id"}, secret \in {"", "secret"}}

InitToken ==
    /\ apps \in {[a \in AppIds |-> IF a = 1 THEN app ELSE InitApps[a]] : app \in TokenApps}
    /\ conns \in {[c \in ConnIds |-> IF c = 1 THEN obj ELSE NoConn] : obj \in TokenConns}
    /\ mappings = NoMappings
    /\ queue = EmptyBag
    /\ task = [w \in {} |-> Idle]
    /\ runs = 0
    /\ webhooks = [c \in ConnIds |-> NoWebhook]
    /\ now = 1
    /\ env = [faults |-> TRUE, rejections |-> FALSE, runs |-> 0, sweeps |-> 0]
    /\ reports = [k \in MappingKeys |-> <<>>]
    /\ px \in {[pc |-> "input", c |-> 1, r |-> r, before |-> NoConn,
                 result |-> Result("", None, NoText, NoConn, FALSE, FALSE)] : r \in TokenResponses}
    /\ resp = NoResp
    /\ enq = NoEnqueue

\* _get_access_token(zoom_oauth_connection) while the provider answers px.r;
\* set_credentials saves the connection.
GetAccessToken ==
    /\ px.pc = "input"
    /\ LET obj == conns[px.c]
           res == _get_access_token(obj, apps[obj.zoom_oauth_app], px.r)
       IN  /\ conns' = IF res.saved THEN Save(conns, px.c, res.obj) ELSE conns
           /\ px' = [px EXCEPT !.pc = "done", !.before = obj, !.result = res]
    /\ UNCHANGED <<apps, mappings, queue, task, runs, webhooks, now, env, reports, resp, enq>>

NextToken == GetAccessToken

SpecToken == InitToken /\ [][NextToken]_vars

\* The call was made with credentials, a refresh token, a client id and a
\* client secret, so that the request was sent.
Complete ==
    /\ px.before.has_credentials
    /\ Truthy(px.before.refresh_token)
    /\ apps[px.before.zoom_oauth_app].client_id /= ""
    /\ apps[px.before.zoom_oauth_app].client_secret /= ""

\* C18: after a call that returned, the value returned is the access_token of
\* the response; when the response carries a refresh token other than the
\* stored one, the stored refresh token is the new one, and when it carries
\* none (or an empty one) or the same one, the stored row is as it was.
C18_RotatedRefreshTokenStored ==
    (px.pc = "done" /\ px.result.outcome = "return") =>
        /\ px.result.value = px.r.access_token
        /\ (Truthy(px.r.refresh_token) /\ px.r.refresh_token /= px.before.refresh_token)
              => /\ conns[px.c].refresh_token = px.r.refresh_token
                 /\ px.result.saved
                 /\ conns[px.c] = [px.before EXCEPT !.refresh_token = px.r.refresh_token]
        /\ (~Truthy(px.r.refresh_token) \/ px.r.refresh_token = px.before.refresh_token)
              => conns[px.c] = px.before

\* A call has returned the access token and replaced the stored refresh token
\* 1 by the token 2 of the response.
C18_Witness ==
    /\ px.pc = "done" /\ px.result.outcome = "return"
    /\ px.result.value = 1
    /\ px.before.refresh_token = 1
    /\ px.r.refresh_token = 2
    /\ conns[px.c].refresh_token = 2

\* C19: when the request is sent, an HTTP error with the code invalid_grant or
\* invalid_client raises ZoomAPIAuthenticationError, an HTTP error with another
\* code raises the ZoomAPIError "Failed to refresh Zoom access token.", a
\* response without access_token raises the ZoomAPIError "No access_token in
\* refresh response.", and the call returns exactly for a response with an
\* access_token.
C19_OutcomeFollowsProvidersAnswer ==
    (px.pc = "done" /\ Complete) =>
        /\ (px.r.kind = "http_error" /\ px.r.payload.error \in {"invalid_grant", "invalid_client"})
              => /\ px.result.outcome = "auth"
                 /\ px.result.error = AuthErrorText(px.r.payload)
        /\ (px.r.kind = "http_error" /\ px.r.payload.error \notin {"invalid_grant", "invalid_client"})
              => /\ px.result.outcome = "error"
                 /\ px.result.error = Text("Failed to refresh Zoom access token.")
        /\ (px.r.kind = "ok" /\ ~Truthy(px.r.access_token))
              => /\ px.result.outcome = "error"
                 /\ px.result.error = Text("No access_token in refresh response.")
        /\ px.result.outcome = "return" <=> (px.r.kind = "ok" /\ Truthy(px.r.access_token))
        /\ px.result.outcome /= "return" => conns[px.c] = px.before

\* The provider has rejected a refresh with invalid_client: the call raised
\* the authentication error.
C19_Witness ==
    /\ px.pc = "done" /\ Complete
    /\ px.r.kind = "http_error"
    /\ px.r.payload.error = "invalid_client"
    /\ px.result.outcome = "auth"
    /\ px.result.sent

\* C20: a call for a connection without credentials, or whose refresh token,
\* client id or client secret is missing or empty, raises
\* ZoomAPIAuthenticationError, sends no request and leaves the stored row as
\* it was.
C20_IncompleteCredentialsRaise ==
    (px.pc = "done" /\ ~Complete) =>
        /\ px.result.outcome = "auth"
        /\ px.result.error = IF px.before.has_credentials THEN MissingFieldsText
                              ELSE NoCredentialsText
        /\ ~px.result.sent
        /\ ~px.result.saved
        /\ conns[px.c] = px.before

\* A call for a connection with a refresh token whose app has an empty client
\* secret has raised the authentication error, though the provider would have
\* answered with a token.
C20_Witness ==
    /\ px.pc = "done"
    /\ px.before.has_credentials /\ Truthy(px.before.refresh_token)
    /\ apps[px.before.zoom_oauth_app].client_secret = ""
    /\ px.r.kind = "ok" /\ Truthy(px.r.access_token)
    /\ px.result.outcome = "auth"
    /\ ~px.result.sent

---------------------------------------------------------------------------
(* One enqueued sync and its retries *)

\* enqueue_sync_zoom_oauth_connection_task has been called once for connection
\* 1; the provider may fail any request of any run, and the worker starts the
\* task as often as the queue hands it over, up to MaxAttempts times.
InitRetry ==
    /\ apps = InitApps
    /\ conns \in {Save(table, 1, EnqueuedObj(table[1], 0)) :
                     table \in InitConns({1}, [faults |-> TRUE])}
    /\ mappings = NoMappings
    /\ queue = SetToBag({<<1, 0>>})
    /\ task = [w \in {1} |-> Idle]
    /\ runs = 0
    /\ webhooks = [c \in ConnIds |-> NoWebhook]
    /\ now = 0
    /\ env = [faults |-> TRUE, rejections |-> FALSE, runs |-> MaxAttempts, sweeps |-> 0]
    /\ reports = [k \in MappingKeys |-> <<>>]
    /\ px = NoPx
    /\ resp = NoResp
    /\ enq = NoEnqueue

NextRetry ==
    \/ \E w \in DOMAIN task : Start(w)
    \/ \E w \in DOMAIN task : Token(w)
    \/ \E w \in DOMAIN task : TokenAnswer(w)
    \/ \E w \in DOMAIN task : Meetings(w)
    \/ \E w \in DOMAIN task : PersonalMeetingId(w)
    \/ \E w \in DOMAIN task : Upsert(w)
    \/ \E w \in DOMAIN task : UpsertFails(w)
    \/ \E w \in DOMAIN task : Success(w)
    \/ \E w \in DOMAIN task : SuccessSave(w)
    \/ \E w \in DOMAIN task : AuthHandler(w)
    \/ \E w \in DOMAIN task : AuthSave(w)
    \/ \E w \in DOMAIN task : AuthWebhook(w)
    \/ \E w \in DOMAIN task : ErrorHandler(w)
    \/ \E w \in DOMAIN task : ErrorSave(w)
    \/ \E w \in DOMAIN task : Ack(w)

SpecRetry == InitRetry /\ [][NextRetry]_vars

\* The worker goes on with the run it holds and takes the task the queue holds.
SpecRetryFair == SpecRetry /\ WF_vars(NextRetry)

\* Nothing is left to run: the queue is empty and the worker is idle.
RetriesOver == queue = EmptyBag /\ \A w \in DOMAIN task : task[w].pc = "idle"

\* C21: for one enqueued sync the task body is started at most
\* max_retries + 1 = 7 times; the run after which nothing is left to run is a
\* successful sync, an authentication disconnect, or a failure of the run with
\* retries = max_retries; and the runs come to that end.
C21_RetriesAreCapped ==
    /\ [](runs <= max_retries + 1)
    /\ [][\A w \in DOMAIN task :
             (task[w].pc \in {"returned", "raised"} /\ task'[w].pc = "idle") =>
                 /\ task[w].retries = runs - 1
                 /\ queue' = EmptyBag <=>
                       \/ task[w].pc = "returned" /\ task[w].exception = ""
                       \/ task[w].pc = "returned" /\ task[w].exception = "auth"
                       \/ task[w].pc = "raised" /\ task[w].retries = max_retries
                 /\ (task[w].pc = "returned" /\ task[w].exception = "")
                       => conns[task[w].cid].state = CONNECTED
                 /\ (task[w].pc = "returned" /\ task[w].exception = "auth")
                       => conns[task[w].cid].state = DISCONNECTED]_vars
    /\ <>[]RetriesOver

\* The seventh run has failed like the six before it and the task is not
\* queued again.
C21_Witness ==
    /\ runs = max_retries + 1
    /\ RetriesOver
    /\ conns[1].last_attempted_sync_at = now
    /\ conns[1].last_successful_sync_at = None
    /\ conns[1].state = CONNECTED

---------------------------------------------------------------------------
(* _get_zoom_meetings, one request at a time *)

\* The answers of the provider to a request for a page: up to MaxListLen
\* meetings with a continuation token (absent, empty, or one of two tokens), an
\* HTTP error, or no response.
HarnessPages ==
    {PageOk(ms, tok) : ms \in SeqsUpTo({1, 2}, MaxListLen), tok \in TokenValues}
    \cup {PageError(p) : p \in ErrorPayloads} \cup {PageNoResponse}

\* The answers of the provider to the successive requests, in any number up to
\* MaxPages; a provider that answers the last of them with a continuation
\* token has no page without one to give.
HarnessScripts == SeqsUpTo(HarnessPages, MaxPages) \ {<<>>}

InitPages ==
    /\ apps = InitApps
    /\ conns = [c \in ConnIds |-> NoConn]
    /\ mappings = NoMappings
    /\ queue = EmptyBag
    /\ task = [w \in {} |-> Idle]
    /\ runs = 0
    /\ webhooks = [c \in ConnIds |-> NoWebhook]
    /\ now = 1
    /\ env = [faults |-> TRUE, rejections |-> FALSE, runs |-> 0, sweeps |-> 0]
    /\ reports = [k \in MappingKeys |-> <<>>]
    /\ px \in {[pc |-> "loop", script |-> script, i |-> 1, next_page_token |-> None,
                 all_meetings |-> <<>>, requests |-> <<>>, exception |-> ""] :
                  script \in HarnessScripts}
    /\ resp = NoResp
    /\ enq = NoEnqueue

\* One iteration of the while loop: the request with the params of the
\* iteration, the meetings of the response added, and the test of its
\* next_page_token.
GetPage ==
    /\ px.pc = "loop"
    /\ px.i <= Len(px.script)
    /\ LET r    == px.script[px.i]
           sent == Append(px.requests, request_params(px.next_page_token))
           out  == _make_zoom_api_request(r)
       IN  px' = IF out /= "return"
                 THEN [px EXCEPT !.pc = "raised", !.requests = sent, !.exception = out]
                 ELSE [px EXCEPT !.requests = sent,
                                 !.all_meetings = px.all_meetings \o r.meetings,
                                 !.next_page_token = r.next_page_token,
                                 !.i = px.i + 1,
                                 !.pc = IF no_next_page(r.next_page_token)
                                        THEN "returned" ELSE "loop"]
    /\ UNCHANGED <<apps, conns, mappings, queue, task, runs, webhooks, now, env, reports, resp, enq>>

NextPages == GetPage

SpecPages == InitPages /\ [][NextPages]_vars

\* The interpreter goes on with the loop while the provider answers.
SpecPagesFair == SpecPages /\ WF_vars(NextPages)

\* Page k of the provider's answers is the first without a continuation token,
\* and every page before it was served.
LastPageAt(script, k) ==
    /\ k \in 1 .. Len(script)
    /\ script[k].kind = "ok"
    /\ script[k].next_page_token \in {None, 0}
    /\ \A j \in 1 .. k - 1 : script[j].kind = "ok" /\ script[j].next_page_token \notin {None, 0}

HasLastPage(script) == \E k \in 1 .. Len(script) : LastPageAt(script, k)

\* C22: _get_zoom_meetings sends one request for each page it reads, the first
\* without next_page_token and each later one with the token of the response
\* before; it returns at the first page whose next_page_token is absent or
\* empty, with the meetings of all the pages read in their order; and it
\* returns if and only if the provider serves the pages up to such a page.
C22_PagesFollowedToTheLast ==
    /\ [](/\ px.pc = "loop" => Len(px.requests) = px.i - 1
          /\ \A j \in 1 .. Len(px.requests) :
                px.requests[j] = IF j = 1 THEN None ELSE px.script[j - 1].next_page_token
          /\ px.pc = "returned" =>
                LET k == Len(px.requests)
                IN  /\ LastPageAt(px.script, k)
                    /\ px.all_meetings = Concat(SubSeq(px.script, 1, k))
                    /\ _get_zoom_meetings(px.script).outcome = "return"
                    /\ _get_zoom_meetings(px.script).value = px.all_meetings
                    /\ _get_zoom_meetings(px.script).requests = px.requests)
    /\ (HasLastPage(px.script) ~> px.pc = "returned")
    /\ [](~HasLastPage(px.script) => px.pc /= "returned")

\* The function has returned after two requests, the second with the token 2
\* of the first response, and returns the meeting of the first page followed by
\* the meeting of the second.
C22_Witness ==
    /\ px.pc = "returned"
    /\ px.requests = <<None, 2>>
    /\ px.script[1].meetings = <<1>>
    /\ px.script[2].meetings = <<2>>
    /\ px.script[2].next_page_token = 0
    /\ px.all_meetings = <<1, 2>>

---------------------------------------------------------------------------
(* zoom_oauth_apps_api_utils.py *)

\* The argument None of a string parameter.
NoString == "<None>"

\* The client ids, client secrets and webhook secrets a caller gives: absent,
\* empty, blank, the stored value, and a new value with and without
\* surrounding whitespace.
ClientIdInputs      == {"", "client_id", "client_id_2"}
ClientSecretInputs  == {NoString, "", "  ", "secret", " secret ", " new_secret ", "new_secret"}
WebhookSecretInputs == {NoString, "", " new_webhook_secret "}

\* str.strip() on the texts of the model.
strip(text) ==
    CASE text = "  " -> ""
      [] text = " secret " -> "secret"
      [] text = " new_secret " -> "new_secret"
      [] text = " new_webhook_secret " -> "new_webhook_secret"
      [] OTHER -> text

\* (text or "")
or_empty(text) == IF text = NoString THEN "" ELSE text

\* The place of an app row that does not exist.
NoApp == [AppRow(0, "", "", "") EXCEPT !.exists = FALSE]

\* ZoomOAuthApp.objects.filter(project=project).first(): the app of the project
\* with the least id, or None.
first_zoom_oauth_app(table, project) ==
    LET found == {a \in AppIds : table[a].exists /\ table[a].project = project}
    IN  IF found = {} THEN None ELSE CHOOSE a \in found : \A b \in found : a <= b

\* The id the database gives a new app.
new_app_id(table) ==
    LET free == {a \in AppIds : ~table[a].exists}
    IN  IF free = {} THEN None ELSE CHOOSE a \in free : \A b \in free : a <= b

\* A variant of the test before .delay that leaves the comparison out.
secret_given(client_secret, current) == client_secret /= ""

\* if client_secret and client_secret != zoom_oauth_app.client_secret
secret_changes(client_secret, current) ==
    client_secret /= "" /\ client_secret /= current

\* A variant of the credentials that takes the given values as they are.
given_credentials(client_secret, webhook_secret, existing) ==
    [existing EXCEPT !.client_secret = client_secret, !.webhook_secret = webhook_secret]

\* updated_credentials: each given value, or the existing one where the given
\* value is blank; the row as set_credentials saves it.
updated_credentials(client_secret, webhook_secret, existing) ==
    [existing EXCEPT
        !.client_secret = IF client_secret /= "" THEN client_secret ELSE existing.client_secret,
        !.webhook_secret = IF webhook_secret /= "" THEN webhook_secret ELSE existing.webhook_secret]

\* A variant that checks the credentials before the test of the arguments.
check_before_required(client_id, client_secret) == TRUE

\* not (not client_id or not client_secret)
required_given(client_id, client_secret) == client_id /= "" /\ client_secret /= ""

\* A call of client_id_and_secret_is_valid(client_id, client_secret) and its
\* answer.
Checked(client_id, client_secret, valid) ==
    <<[client_id |-> client_id, client_secret |-> client_secret, valid |-> valid]>>

\* What a call does up to its last statement: the app it returns (None on an
\* error), the error message, the calls of client_id_and_secret_is_valid it
\* made, whether it called validate_zoom_oauth_connections.delay, and the row
\* it saves with set_credentials (under `id`; None when it saves nothing).
Outcome(app, error, checked, delayed, id, row) ==
    [zoom_oauth_app |-> app, error |-> error, checked |-> checked, delayed |-> delayed,
     id |-> id, row |-> row]

\* create_or_update_zoom_oauth_app(project, client_id, client_secret,
\* webhook_secret) on the table of apps, where `valid` is the answer of
\* client_id_and_secret_is_valid.
create_or_update_zoom_oauth_app(table, project, client_id, given_client_secret, given_webhook_secret, valid) ==
    LET zoom_oauth_app == first_zoom_oauth_app(table, project)
        client_secret  == strip(or_empty(given_client_secret))
        webhook_secret == strip(or_empty(given_webhook_secret))
    IN  IF zoom_oauth_app = None
        THEN IF ~required_given(client_id, client_secret)
             THEN Outcome(None, "client_id and client_secret are required when creating a new Zoom OAuth app",
                          <<>>, FALSE, None, NoApp)
             ELSE IF ~valid
             THEN Outcome(None, "Invalid client id or client secret",
                          Checked(client_id, client_secret, valid), FALSE, None, NoApp)
             ELSE Outcome(new_app_id(table), "", Checked(client_id, client_secret, valid), FALSE,
                          new_app_id(table),
                          AppRow(project, client_id, client_secret, webhook_secret))
        ELSE LET existing == table[zoom_oauth_app]
             IN  IF client_secret /= "" /\ ~valid
                 THEN Outcome(None, "Invalid client secret",
                              Checked(existing.client_id, client_secret, valid), FALSE, None, NoApp)
                 ELSE Outcome(zoom_oauth_app, "",
                              IF client_secret /= "" THEN Checked(existing.client_id, client_secret, valid)
                              ELSE <<>>,
                              secret_changes(client_secret, existing.client_secret),
                              zoom_oauth_app,
                              updated_credentials(client_secret, webhook_secret, existing))

\* The task validate_zoom_oauth_connections(zoom_oauth_app_id) in the queue.
ValidateTask(a) == <<"validate", a>>

\* No call runs; n of them were made.
NoCall(n) == [pc |-> "idle", calls |-> n]

\* A call up to and with validate_zoom_oauth_connections.delay (lines 7-34): a
\* call that ends in an error returns here, a call that saves goes on to
\* set_credentials.
CreateOrUpdate(project, client_id, client_secret, webhook_secret) ==
    /\ resp.pc \in {"idle", "returned"}
    /\ resp.calls < MaxCalls
    /\ \E valid \in BOOLEAN :
         LET out == create_or_update_zoom_oauth_app(apps, project, client_id, client_secret,
                                                    webhook_secret, valid)
         IN  /\ out.error = "" => out.id /= None
             /\ queue' = IF out.delayed THEN queue (+) SetToBag({ValidateTask(out.zoom_oauth_app)})
                          ELSE queue
             /\ resp' = [pc |-> IF out.error = "" THEN "set_credentials" ELSE "returned",
                         calls |-> resp.calls + 1,
                         project |-> project, client_id |-> client_id,
                         client_secret |-> client_secret, webhook_secret |-> webhook_secret,
                         before |-> apps, pending |-> BagCardinality(queue), out |-> out]
    /\ UNCHANGED <<apps, conns, mappings, task, runs, webhooks, now, env, reports, px, enq>>

\* zoom_oauth_app.set_credentials(...) and the return of the app.
SetCredentials ==
    /\ resp.pc = "set_credentials"
    /\ apps' = [apps EXCEPT ![resp.out.id] = resp.out.row]
    /\ resp' = [resp EXCEPT !.pc = "returned"]
    /\ UNCHANGED <<conns, mappings, queue, task, runs, webhooks, now, env, reports, px, enq>>

\* A worker takes the validation task from the queue and starts it.
ValidateDelivered(a) ==
    /\ px.pc \in {"waiting", "returned"}
    /\ ValidateTask(a) \in BagToSet(queue)
    /\ apps[a].exists
    /\ queue' = queue (-) SetToBag({ValidateTask(a)})
    /\ \E order \in Orders(disconnected_zoom_oauth_connections(a)) :
         px' = Sweep(px.sweeps + 1, a, order)
    /\ UNCHANGED <<apps, conns, mappings, task, runs, webhooks, now, env, reports, resp, enq>>

\* Project 1 has app 1 with two connections, one disconnected by a sync that
\* the provider rejected for the client secret and one connected; project 2
\* has no app.
InitApp ==
    /\ apps = [a \in AppIds |-> IF a = 1 THEN InitApps[1] ELSE NoApp]
    /\ conns = [c \in ConnIds |->
                   IF c = 1
                   THEN AuthFailureObj(NewConn(1),
                            AuthErrorText([error |-> "invalid_client", reason |-> InvalidClientText]), 0)
                   ELSE IF c = 2 THEN NewConn(2) ELSE NoConn]
    /\ mappings = NoMappings
    /\ queue = EmptyBag
    /\ task = [w \in {} |-> Idle]
    /\ runs = 0
    /\ webhooks = [c \in ConnIds |-> NoWebhook]
    /\ now = 1
    /\ env = [faults |-> FALSE, rejections |-> FALSE, runs |-> 0, sweeps |-> 0]
    /\ reports = [k \in MappingKeys |-> <<>>]
    /\ px = NoSweep(0)
    /\ resp = NoCall(0)
    /\ enq = NoEnqueue

NextApp ==
    \/ \E project \in Projects, client_id \in ClientIdInputs,
          client_secret \in ClientSecretInputs, webhook_secret \in WebhookSecretInputs :
            CreateOrUpdate(project, client_id, client_secret, webhook_secret)
    \/ SetCredentials
    \/ \E a \in AppIds : ValidateDelivered(a)
    \/ ValidateConnection
    \/ ValidateRefreshed
    \/ ValidateSave
    \/ ValidateWebhook
    \/ ValidateReturn

SpecApp == InitApp /\ [][NextApp]_vars

\* Texts that are None, empty or whitespace only.
Blank(text) == text \in {NoString, "", "  "}

\* Each given text without its surrounding whitespace.
Trimmed ==
    [text \in ClientSecretInputs \cup WebhookSecretInputs |->
        CASE text \in {" secret ", "secret"} -> "secret"
          [] text \in {" new_secret ", "new_secret"} -> "new_secret"
          [] text = " new_webhook_secret " -> "new_webhook_secret"
          [] OTHER -> ""]

\* The apps of a project.
AppsOf(project) == {a \in AppIds : apps[a].exists /\ apps[a].project = project}

\* The step is a call of create_or_update_zoom_oauth_app up to its .delay.
CallStep == resp'.calls = resp.calls + 1

\* The validation tasks for app a that the step adds to the queue.
SweepsEnqueued(a) == CopiesIn(ValidateTask(a), queue') - CopiesIn(ValidateTask(a), queue)

\* C23: a call for a project that has an app enqueues the validation sweep of
\* that app once when the given client secret is not blank, passed the
\* credential check and differs from the app's current client secret, and
\* enqueues nothing otherwise; the rest of the call (set_credentials) enqueues
\* nothing.
C23_SecretChangeEnqueuesOneSweep ==
    [][ /\ (CallStep /\ AppsOf(resp'.project) /= {}) =>
            (\A a \in AppIds :
                LET given  == resp'.client_secret
                    passes == /\ resp'.out.checked /= <<>>
                              /\ resp'.out.checked[1].valid
                    changed == /\ a \in AppsOf(resp'.project)
                               /\ ~Blank(given)
                               /\ passes
                               /\ Trimmed[given] /= apps[a].client_secret
                IN  SweepsEnqueued(a) = (IF changed THEN 1 ELSE 0))
        /\ (resp.pc = "set_credentials" /\ resp'.pc = "returned") => (queue' = queue)
      ]_vars

C23_Witness ==
    /\ resp.pc = "returned"
    /\ resp.client_secret = " new_secret "
    /\ resp.before[1].client_secret = "secret"
    /\ apps[1].client_secret = "new_secret"
    /\ resp.pending = 0
    /\ BagCardinality(queue) = 1
    /\ ValidateTask(1) \in BagToSet(queue)

\* C24: every refresh that the sweep enqueued by a client-secret update
\* attempts is made with the client secret the update gave.
C24_SweepUsesNewSecret ==
    (/\ resp.pc \in {"set_credentials", "returned"}
     /\ resp.out.delayed
     /\ px.pc /= "waiting"
     /\ px.zoom_oauth_app_id = resp.out.zoom_oauth_app)
        => \A k \in 1..Len(px.used) : px.used[k] = Trimmed[resp.client_secret]

\* The call that the step makes, or that the state is in or after, ended in an
\* error.
Failed(r) == r.pc = "returned" /\ r.out.error /= ""

\* C25: a call that ends in an error returns None with a message, enqueues
\* nothing and leaves the table of apps as it was before the call; a call that
\* creates with a missing client_id or client_secret is such a call and makes
\* no credential check; a call that creates or updates with credentials the
\* check rejects is such a call.
C25_ErrorsChangeNothing ==
    /\ [](Failed(resp) => apps = resp.before)
    /\ [][CallStep =>
            LET out      == resp'.out
                existing == AppsOf(resp'.project)
                missing  == resp'.client_id = "" \/ Blank(resp'.client_secret)
                rejected == out.checked /= <<>> /\ ~out.checked[1].valid
            IN  /\ (existing = {} /\ missing) => (Failed(resp') /\ out.checked = <<>>)
                /\ (existing = {} /\ ~missing /\ rejected) => Failed(resp')
                /\ (existing /= {} /\ rejected) => Failed(resp')
                /\ Failed(resp') => (/\ out.zoom_oauth_app = None
                                     /\ queue' = queue
                                     /\ apps' = apps)
                /\ (resp'.pc = "returned") => Failed(resp')
         ]_vars

C25_Witness ==
    /\ Failed(resp)
    /\ resp.out.error = "Invalid client secret"
    /\ resp.client_secret = " new_secret "
    /\ resp.webhook_secret = " new_webhook_secret "
    /\ apps[1].client_secret = "secret"
    /\ apps[1].webhook_secret = "webhook_secret"
    /\ queue = EmptyBag

\* The apps the project of the call had when the call began.
AppsBefore(r) == {a \in AppIds : r.before[a].exists /\ r.before[a].project = r.project}

\* The value a secret of the app has after an update that gave `text`.
StoredAfter(text, previous) == IF Blank(text) THEN previous ELSE Trimmed[text]

\* The call returned app a, and the table holds what the claim says: the row
\* of a with each secret as given or as it was, every other field and every
\* other row as before the call.
ReturnedUpdated(r, a) ==
    /\ r.out.zoom_oauth_app = a
    /\ apps = [r.before EXCEPT
                  ![a].client_secret = StoredAfter(r.client_secret, @),
                  ![a].webhook_secret = StoredAfter(r.webhook_secret, @)]

\* The credential check rejected the client secret of the call.
Rejected(r) == r.out.checked /= <<>> /\ ~r.out.checked[1].valid

\* C26 as stated: after a call for a project that had an app, the call has
\* returned that app, no app was added, its client_id is the old one, and each
\* of its two secrets is the given one without surrounding whitespace, or the
\* previous one where the given one is blank.
C26_UpdateReturnsAppAndStoresSecrets ==
    (resp.pc = "returned" /\ AppsBefore(resp) /= {})
        => \E a \in AppsBefore(resp) : ReturnedUpdated(resp, a)

\* C26, amended: the statement holds for the calls whose client secret the
\* credential check did not reject; a call whose client secret it rejected
\* returns None and leaves both secrets, the given webhook secret too, as
\* they were.
C26_AcceptedUpdateReturnsAppAndStoresSecrets ==
    (resp.pc = "returned" /\ AppsBefore(resp) /= {})
        => IF Rejected(resp)
           THEN resp.out.zoom_oauth_app = None /\ apps = resp.before
           ELSE \E a \in AppsBefore(resp) : ReturnedUpdated(resp, a)

C26_Witness ==
    /\ resp.pc = "returned"
    /\ AppsBefore(resp) = {1}
    /\ resp.client_id = "client_id_2"
    /\ resp.client_secret = "  "
    /\ resp.webhook_secret = " new_webhook_secret "
    /\ resp.out.zoom_oauth_app = 1
    /\ apps[1] = AppRow(1, "client_id", "secret", "new_webhook_secret")
    /\ ~apps[2].exists

---------------------------------------------------------------------------
(* Deletion of apps and connections *)

\* The connections that reference app a.
zoom_oauth_connections_of(a) ==
    {c \in ConnIds : conns[c].exists /\ conns[c].zoom_oauth_app = a}

\* A variant of the foreign key without protection.
do_nothing(a) == FALSE

\* on_delete=PROTECT of ZoomOAuthConnection.zoom_oauth_app: the delete of an
\* app that a connection references raises ProtectedError.
protect(a) == zoom_oauth_connections_of(a) /= {}

\* The end of a delete() of the row `id` of a model class.
Deleted(model, id, error) == [pc |-> "deleted", model |-> model, id |-> id, error |-> error]

\* No delete() was called.
NoDelete == [pc |-> "idle", model |-> "", id |-> 0, error |-> ""]

\* zoom_oauth_app.delete()
DeleteZoomOAuthApp(a) ==
    /\ apps[a].exists
    /\ IF protect(a)
       THEN /\ resp' = Deleted("ZoomOAuthApp", a, "ProtectedError")
            /\ UNCHANGED apps
       ELSE /\ resp' = Deleted("ZoomOAuthApp", a, "")
            /\ apps' = [apps EXCEPT ![a] = NoApp]
    /\ UNCHANGED <<conns, mappings, queue, task, runs, webhooks, now, env, reports, px, enq>>

\* zoom_oauth_connection.delete(); it waits for the transaction that holds the
\* lock of the row.
DeleteZoomOAuthConnection(c) ==
    /\ conns[c].exists
    /\ ~Locked(c)
    /\ resp' = Deleted("ZoomOAuthConnection", c, "")
    /\ conns' = [conns EXCEPT ![c] = NoConn]
    /\ UNCHANGED <<apps, mappings, queue, task, runs, webhooks, now, env, reports, px, enq>>

\* Two apps, each with none, one or two connections in either state.
InitDelete ==
    /\ apps = InitApps
    /\ conns \in [ConnIds -> {NoConn} \cup {NewConn(c) : c \in ConnIds}
                                      \cup {[NewConn(c) EXCEPT !.state = DISCONNECTED] : c \in ConnIds}]
    /\ \A c \in ConnIds : conns[c].exists => conns[c].zoom_oauth_app = AppOfConn[c]
    /\ mappings = NoMappings
    /\ queue = EmptyBag
    /\ task = [w \in {} |-> Idle]
    /\ runs = 0
    /\ webhooks = [c \in ConnIds |-> NoWebhook]
    /\ now = 1
    /\ env = [faults |-> FALSE, rejections |-> FALSE, runs |-> 0, sweeps |-> 0]
    /\ reports = [k \in MappingKeys |-> <<>>]
    /\ px = NoSweep(0)
    /\ resp = NoDelete
    /\ enq = NoEnqueue

NextDelete ==
    \/ \E a \in AppIds : DeleteZoomOAuthApp(a)
    \/ \E c \in ConnIds : DeleteZoomOAuthConnection(c)

SpecDelete == InitDelete /\ [][NextDelete]_vars

\* C27: the delete of an app that a connection references fails with
\* ProtectedError and leaves apps and connections as they are; the delete of an
\* app without connections removes it; no step removes an app that has
\* connections, and a delete of an app or of a connection changes no other
\* app and no other connection.
C27_AppProtectedWhileReferenced ==
    [][\A a \in AppIds :
          /\ (apps[a].exists /\ ~apps'[a].exists) => zoom_oauth_connections_of(a) = {}
          /\ DeleteZoomOAuthApp(a) =>
                /\ \A b \in AppIds \ {a} : apps'[b] = apps[b]
                /\ conns' = conns
                /\ IF zoom_oauth_connections_of(a) /= {}
                   THEN resp'.error = "ProtectedError" /\ apps' = apps
                   ELSE resp'.error = "" /\ ~apps'[a].exists
          /\ \A c \in ConnIds :
                DeleteZoomOAuthConnection(c) =>
                    /\ apps' = apps
                    /\ ~conns'[c].exists
                    /\ \A d \in ConnIds \ {c} : conns'[d] = conns[d]
      ]_vars

\* App 1 was deleted after its connections; the delete of app 2 has failed for
\* its connection, which is still there.
C27_Witness ==
    /\ ~apps[1].exists
    /\ zoom_oauth_connections_of(1) = {}
    /\ apps[2].exists
    /\ zoom_oauth_connections_of(2) = {3}
    /\ resp = Deleted("ZoomOAuthApp", 2, "ProtectedError")

---------------------------------------------------------------------------
(* POST zoom_oauth_connections and the sync it enqueues *)

\* C28: a POST whose creation fails (the app is not of the key's project, the
\* provider refuses the authorization code, the tokens lack the required
\* scopes, or the user is not active) is answered 400 with an error message,
\* adds no connection and enqueues no sync; every other POST adds one
\* connection, in state CONNECTED, is answered 201, and has then enqueued
\* exactly one sync, for that connection.
C28_PostEnqueuesSyncIffCreated ==
    [][ /\ \A project \in Projects, a \in AppIds, exchanged \in CodeExchanges :
            post(project, a, exchanged) =>
                LET fails == apps[a].project /= project \/ exchanged /= "tokens"
                    c     == px'.id
                IN  /\ queue' = queue
                    /\ IF fails
                       THEN /\ resp'.status = HTTP_400_BAD_REQUEST
                            /\ resp'.error /= ""
                            /\ conns' = conns
                            /\ px' = px
                       ELSE /\ px'.pc = "enqueue"
                            /\ c \in ConnIds
                            /\ ~conns[c].exists /\ conns'[c].exists
                            /\ conns'[c].state = CONNECTED
                            /\ \A d \in ConnIds \ {c} : conns'[d] = conns[d]
        /\ (queue' /= queue) =>
              ( /\ px.pc = "respond"
                /\ queue' = queue (+) SetToBag({<<px.id, 0>>}) )
        /\ PostRespond =>
              ( /\ resp'.status = HTTP_201_CREATED
                /\ resp'.id = px.id
                /\ CopiesIn(<<px.id, 0>>, queue) = 1 )
      ]_vars

---------------------------------------------------------------------------
(* Sync timestamps under a clock that advances *)

\* timezone.now() gives a later time.
Tick ==
    /\ now < MaxTime
    /\ now' = now + 1
    /\ UNCHANGED <<apps, conns, mappings, queue, task, runs, webhooks, env, reports, px, resp, enq>>

\* The workers that sync, one run each.
ClockWorkers == {1, 2}

\* Two syncs of connection 1, run by two workers that may overlap, while
\* requests may fail: one sync is queued, the other is enqueued at any time.

InitClock ==
    /\ apps = InitApps
    /\ conns = [c \in ConnIds |-> IF c = 1 THEN EnqueuedObj(NewConn(1), 0) ELSE NoConn]
    /\ mappings = NoMappings
    /\ queue = delay(1)
    /\ task = [w \in ClockWorkers |-> Idle]
    /\ runs = 0
    /\ webhooks = [c \in ConnIds |-> NoWebhook]
    /\ now = 0
    /\ env = [faults |-> TRUE, rejections |-> TRUE, runs |-> Cardinality(ClockWorkers),
              sweeps |-> 0]
    /\ reports = [k \in MappingKeys |-> <<>>]
    /\ px = NoPx
    /\ resp = NoResp
    /\ enq = NoEnqueue

NextClock ==
    \/ \E c \in ConnIds : EnqueueBegin(c)
    \/ EnqueueDelay
    \/ EnqueueCommit
    \/ \E w \in DOMAIN task : Start(w)
    \/ \E w \in DOMAIN task : Token(w)
    \/ \E w \in DOMAIN task : TokenAnswer(w)
    \/ \E w \in DOMAIN task : Meetings(w)
    \/ \E w \in DOMAIN task : PersonalMeetingId(w)
    \/ \E w \in DOMAIN task : Upsert(w)
    \/ \E w \in DOMAIN task : UpsertFails(w)
    \/ \E w \in DOMAIN task : Success(w)
    \/ \E w \in DOMAIN task : SuccessSave(w)
    \/ \E w \in DOMAIN task : AuthHandler(w)
    \/ \E w \in DOMAIN task : AuthSave(w)
    \/ \E w \in DOMAIN task : AuthWebhook(w)
    \/ \E w \in DOMAIN task : ErrorHandler(w)
    \/ \E w \in DOMAIN task : ErrorSave(w)
    \/ \E w \in DOMAIN task : Ack(w)
    \/ Tick

SpecClock == InitClock /\ [][NextClock]_vars

\* The three sync timestamps of a connection are in order.
TimestampsInOrder(obj) ==
    /\ obj.last_successful_sync_started_at /= None
    /\ obj.last_attempted_sync_at /= None
    /\ obj.last_successful_sync_started_at <= obj.last_successful_sync_at
    /\ obj.last_successful_sync_at <= obj.last_attempted_sync_at

\* C29: the end of a successful run assigns the time it reads to
\* last_attempted_sync_at and last_successful_sync_at and the time the run
\* started to last_successful_sync_started_at; its save, at that time or
\* later, leaves last_attempted_sync_at equal to last_successful_sync_at, at
\* the time read, and last_successful_sync_started_at at the time the run
\* started, which is not later; and in every state a connection
\* whose last_successful_sync_at is set has last_successful_sync_started_at <=
\* last_successful_sync_at <= last_attempted_sync_at.
C29_TimestampsConsistent ==
    /\ [](\A c \in ConnIds :
            (conns[c].exists /\ conns[c].last_successful_sync_at /= None)
                => TimestampsInOrder(conns[c]))
    /\ [][\A w \in DOMAIN task :
            /\ Success(w) =>
                  LET obj == task'[w].obj
                  IN  /\ obj.last_attempted_sync_at = now
                      /\ obj.last_successful_sync_at = now
                      /\ obj.last_successful_sync_started_at = task[w].sync_started_at
                      /\ conns' = conns
            /\ SuccessSave(w) =>
                  LET saved == conns'[task[w].cid]
                  IN  /\ saved.last_attempted_sync_at = saved.last_successful_sync_at
                      /\ saved.last_successful_sync_at = task[w].obj.last_successful_sync_at
                      /\ saved.last_successful_sync_at <= now
                      /\ saved.last_successful_sync_started_at = task[w].sync_started_at
                      /\ saved.last_successful_sync_started_at <= saved.last_successful_sync_at
         ]_vars

\* A run that started at time 0 succeeded at time 1, and a later run of the
\* connection failed at time 2.
C29_Witness ==
    /\ conns[1].last_successful_sync_started_at = 0
    /\ conns[1].last_successful_sync_at = 1
    /\ conns[1].last_attempted_sync_at = 2

---------------------------------------------------------------------------
(* State and failure data under syncs and validation sweeps *)

\* str(e) of the failure data is not the empty text.
NonEmptyError(fd) == fd.error.msg /= "" \/ fd.error.code /= "" \/ fd.error.reason /= ""

\* The state of a connection and its failure data agree.
Consistent(obj) ==
    /\ obj.state = CONNECTED => obj.connection_failure_data.isNone
    /\ obj.state = DISCONNECTED =>
          ~obj.connection_failure_data.isNone /\ NonEmptyError(obj.connection_failure_data)

\* The worker that syncs beside the validation task.
BothWorkers == {1}

\* Two connections of app 1, the first connected or disconnected with an
\* error, the second connected or disconnected with the error text of the
\* tests, a sync worker and the validation task, while requests may fail.
InitBoth ==
    /\ apps = InitApps
    /\ conns \in {[c \in ConnIds |-> IF c = 1 THEN c1 ELSE IF c = 2 THEN c2 ELSE NoConn] :
                     c1 \in {x \in SweepConns(1) : Consistent(x)},
                     c2 \in {x \in SweepConns(2) :
                                /\ Consistent(x)
                                /\ x.connection_failure_data.error.msg /= NetworkTimeoutText
                                /\ x.connection_failure_data.error.code = ""}}
    /\ mappings = NoMappings
    /\ queue = EmptyBag
    /\ task = [w \in BothWorkers |-> Idle]
    /\ runs = 0
    /\ webhooks = [c \in ConnIds |-> NoWebhook]
    /\ now = 1
    /\ env = [faults |-> TRUE, rejections |-> TRUE, runs |-> Cardinality(BothWorkers),
              sweeps |-> MaxSweeps]
    /\ reports = [k \in MappingKeys |-> <<>>]
    /\ px = NoSweep(0)
    /\ resp = NoResp
    /\ enq = NoEnqueue

NextBoth ==
    \/ TaskNext
    \/ \E a \in AppIds : ValidateStart(a)
    \/ ValidateConnection
    \/ ValidateRefreshed
    \/ ValidateSave
    \/ ValidateWebhook
    \/ ValidateReturn

SpecBoth == InitBoth /\ [][NextBoth]_vars

\* C30: in every state, a connection in state CONNECTED has no failure data and
\* a connection in state DISCONNECTED has failure data with an error text that
\* is not empty; and every step that disconnects a connection stores such a
\* text.
C30_StateAndFailureDataAgree ==
    /\ [](\A c \in ConnIds : conns[c].exists => Consistent(conns[c]))
    /\ [][\A c \in ConnIds :
            (conns'[c].exists /\ conns'[c].state = DISCONNECTED /\ conns'[c] /= conns[c])
                => NonEmptyError(conns'[c].connection_failure_data)
         ]_vars

\* A sync has disconnected connection 2, which was connected, and the sweep has
\* reconnected connection 1.
C30_Witness ==
    /\ conns[2].state = DISCONNECTED
    /\ webhooks[2].count = 1
    /\ NonEmptyError(conns[2].connection_failure_data)
    /\ conns[2].connection_failure_data.timestamp = now
    /\ conns[1].state = CONNECTED
    /\ webhooks[1].count = 1
    /\ px.pc /= "waiting" /\ 1 \in px.attempted

---------------------------------------------------------------------------
(* Webhooks and state transitions *)

\* C31: a task triggers a zoom_oauth_connection.state_change webhook for a
\* connection only when the state it has saved is another than the state it
\* loaded; a sync that ends in an authentication error on a connection that
\* was DISCONNECTED already triggers none.
C31_WebhookOnlyOnStateChange ==
    [][\A c \in ConnIds :
          webhooks'[c].count > webhooks[c].count
              => \/ \E w \in DOMAIN task : /\ task[w].pc = "auth_webhook"
                                       /\ task'[w].pc = "returned"
                                       /\ task[w].cid = c
                                       /\ task[w].obj.state /= task[w].pre.state
                 \/ /\ px.pc = "webhook" /\ px' /= px
                    /\ px.rows[px.i].id = c
                    /\ px.obj.state /= px.rows[px.i].obj.state
      ]_vars

---------------------------------------------------------------------------
(* Deletion of a connection while tasks are in flight *)

\* Connection 1 of app 1 connected or disconnected with an error, connection 2
\* of app 1 connected.
InitGone ==
    /\ InitBoth
    /\ conns[2] = NewConn(2)

\* The sync worker and the validation task of the connections of app 1, while
\* connections are deleted.
NextGone ==
    \/ NextBoth
    \/ \E c \in ConnIds : DeleteZoomOAuthConnection(c)

SpecGone == InitGone /\ [][NextGone]_vars

\* C32: no step of a sync run or of a validation sweep brings back the row of
\* a connection that was deleted.
C32_DeletedStaysDeleted ==
    [][\A c \in ConnIds : ~conns[c].exists => ~conns'[c].exists]_vars

---------------------------------------------------------------------------
(* The chain of refresh tokens *)

\* The provider of refresh tokens: the token it issued last is the one it
\* accepts.
Provider(k) == [pc |-> "provider", issued |-> k]

\* The provider's answers to a refresh request that presents `token`: for the
\* token issued last, an access token with or without a new refresh token; for
\* any other, the error invalid_grant.
ProviderAnswers(token) ==
    IF token /= resp.issued
    THEN {HttpError([error |-> "invalid_grant", reason |-> "Invalid Token!"])}
    ELSE IF resp.issued < MaxTokens
    THEN {TokenOk(1, None), TokenOk(1, resp.issued + 1)}
    ELSE {TokenOk(1, None)}

\* The refresh request of a run, answered by that provider: from its answer
\* on the provider accepts the token it has issued, while the answer is on its
\* way to the run.
ProviderRefresh(w) ==
    /\ task[w].pc = "token"
    /\ \E r \in ProviderAnswers(task[w].obj.refresh_token) :
         /\ TokenRequest(w, r)
         /\ resp' = IF r.kind = "ok" /\ r.refresh_token /= None THEN Provider(r.refresh_token) ELSE resp

\* The workers whose runs of connection 1 may overlap.
ChainWorkers == {1, 2}

\* Connection 1 holds the refresh token the provider issued; every request
\* but the refresh is answered.
InitChain ==
    /\ apps = InitApps
    /\ conns = [c \in ConnIds |-> IF c = 1 THEN NewConn(1) ELSE NoConn]
    /\ mappings = NoMappings
    /\ queue = EmptyBag
    /\ task = [w \in ChainWorkers |-> Idle]
    /\ runs = 0
    /\ webhooks = [c \in ConnIds |-> NoWebhook]
    /\ now = 0
    /\ env = [faults |-> FALSE, rejections |-> TRUE, runs |-> MaxSyncs, sweeps |-> 0]
    /\ reports = [k \in MappingKeys |-> <<>>]
    /\ px = NoPx
    /\ resp = Provider(NewConn(1).refresh_token)
    /\ enq = NoEnqueue

NextChain ==
    \/ \E c \in ConnIds : EnqueueBegin(c)
    \/ EnqueueDelay
    \/ EnqueueCommit
    \/ \E w \in DOMAIN task : Start(w)
    \/ \E w \in DOMAIN task : ProviderRefresh(w)
    \/ \E w \in DOMAIN task : TokenAnswer(w)
    \/ \E w \in DOMAIN task : Meetings(w)
    \/ \E w \in DOMAIN task : PersonalMeetingId(w)
    \/ \E w \in DOMAIN task : Upsert(w)
    \/ \E w \in DOMAIN task : Success(w)
    \/ \E w \in DOMAIN task : SuccessSave(w)
    \/ \E w \in DOMAIN task : AuthHandler(w)
    \/ \E w \in DOMAIN task : AuthSave(w)
    \/ \E w \in DOMAIN task : AuthWebhook(w)
    \/ \E w \in DOMAIN task : Ack(w)

SpecChain == InitChain /\ [][NextChain]_vars

\* C33: whenever no run is in progress, the refresh token stored for the
\* connection is the one the provider issued last.
C33_StoredTokenIsLastIssued ==
    (conns[1].exists /\ \A w \in DOMAIN task : task[w].pc = "idle")
        => conns[1].refresh_token = resp.issued

---------------------------------------------------------------------------
(* What the save of a failed run writes *)

\* C34: the save of a sync run that ends in a failure other than an
\* authentication error leaves the state and the failure data of the connection
\* as they are in the table at that time.
C34_FailureSaveKeepsStateOfTable ==
    [][\A w \in DOMAIN task :
          ErrorSave(w) =>
              LET c == task[w].cid
              IN  /\ conns'[c].state = conns[c].state
                  /\ conns'[c].connection_failure_data = conns[c].connection_failure_data
      ]_vars

---------------------------------------------------------------------------
(* The rotated refresh token across the retries of a run *)

\* enqueue_sync_zoom_oauth_connection_task has been called once for connection
\* 1, which holds the refresh token the provider issued; the provider answers
\* the refresh and may fail any later request of any run.
InitRotate ==
    /\ apps = InitApps
    /\ conns = [c \in ConnIds |-> IF c = 1 THEN EnqueuedObj(NewConn(1), 0) ELSE NoConn]
    /\ mappings = NoMappings
    /\ queue = SetToBag({<<1, 0>>})
    /\ task = [w \in {1} |-> Idle]
    /\ runs = 0
    /\ webhooks = [c \in ConnIds |-> NoWebhook]
    /\ now = 0
    /\ env = [faults |-> TRUE, rejections |-> FALSE, runs |-> MaxRuns, sweeps |-> 0]
    /\ reports = [k \in MappingKeys |-> <<>>]
    /\ px = NoPx
    /\ resp = Provider(NewConn(1).refresh_token)
    /\ enq = NoEnqueue

NextRotate ==
    \/ \E w \in DOMAIN task : Start(w)
    \/ \E w \in DOMAIN task : ProviderRefresh(w)
    \/ \E w \in DOMAIN task : TokenAnswer(w)
    \/ \E w \in DOMAIN task : Meetings(w)
    \/ \E w \in DOMAIN task : PersonalMeetingId(w)
    \/ \E w \in DOMAIN task : Upsert(w)
    \/ \E w \in DOMAIN task : UpsertFails(w)
    \/ \E w \in DOMAIN task : Success(w)
    \/ \E w \in DOMAIN task : SuccessSave(w)
    \/ \E w \in DOMAIN task : AuthHandler(w)
    \/ \E w \in DOMAIN task : AuthSave(w)
    \/ \E w \in DOMAIN task : AuthWebhook(w)
    \/ \E w \in DOMAIN task : ErrorHandler(w)
    \/ \E w \in DOMAIN task : ErrorSave(w)
    \/ \E w \in DOMAIN task : Ack(w)

SpecRotate == InitRotate /\ [][NextRotate]_vars

\* C35: through the runs and retries of one task, whatever step fails after the
\* refresh, the refresh token stored for the connection is the one the provider
\* issued last whenever no answer to a refresh is on its way; the run saves it
\* when the answer arrives, the handlers of the failure leave it as it is, and
\* every refresh request presents it.
C35_RotatedTokenSurvivesFailure ==
    /\ []((\A w \in DOMAIN task : task[w].pc /= "token_answer")
            => conns[1].refresh_token = resp.issued)
    /\ [][\A w \in DOMAIN task :
            /\ (ErrorHandler(w) \/ ErrorSave(w) \/ AuthHandler(w) \/ AuthSave(w)) =>
                    conns'[1].refresh_token = conns[1].refresh_token
            /\ ProviderRefresh(w) => task[w].obj.refresh_token = resp.issued
            /\ TokenAnswer(w) => conns'[1].refresh_token = resp.issued
         ]_vars

\* The first run rotated the token and failed at a later step; its retry
\* loaded the rotated token and has refreshed with it.
C35_Witness ==
    /\ task[1].retries = 1
    /\ task[1].pc = "meetings"
    /\ task[1].pre.refresh_token = 2
    /\ task[1].pre.last_attempted_sync_at /= None
    /\ conns[1].refresh_token = resp.issued

---------------------------------------------------------------------------
(* The order of a run: the three requests, then the mappings *)

\* C36: a step changes the table of mappings only as a statement of the upsert
\* of a run that holds an access token, the meeting list and the personal
\* meeting id; no step of a run that has not called the upsert, whether it
\* fetches, fails or handles the failure, changes a mapping.
C36_MappingsOnlyAfterTheThreeRequests ==
    [][ /\ mappings' /= mappings =>
             \E w \in DOMAIN task :
                 /\ task[w].pc = "upsert"
                 /\ Truthy(task[w].access_token)
                 /\ task[w].upsert_calls = 1
                 /\ task[w].zoom_meeting_ids =
                        task[w].zoom_meetings \o <<task[w].zoom_personal_meeting_id>>
        /\ \A w \in DOMAIN task :
             (task'[w] /= task[w] /\ task[w].upsert_calls = 0 /\ task'[w].upsert_calls = 0)
                 => mappings' = mappings
      ]_vars

\* A first run has written a mapping; the second run listed a meeting, failed
\* to fetch the personal meeting id, and has left the table as it was.
C36_Witness ==
    /\ task[1].pc = "raised"
    /\ task[1].zoom_meetings /= <<>>
    /\ task[1].upsert_calls = 0
    /\ runs = 2
    /\ \E k \in MappingKeys : Len(mappings[k]) = 1

---------------------------------------------------------------------------
(* A request that fails without a response *)

\* str(AttributeError) of e.response.json() where e.response is None.
AttributeErrorText == Text("'NoneType' object has no attribute 'json'")

\* The listings whose last request got no response.
UnansweredScripts ==
    {sc \in PageScripts(FaultyIds, MaxListLen, MaxPages) : sc[Len(sc)].kind = "no_response"}

\* What the three helpers end with when the request of the run of worker w, at
\* the place the run is at, gets no response: an exception that is no
\* ZoomAPIAuthenticationError, and no save of the connection.
NoResponseRaisesOtherError(w) ==
    LET t   == task[w]
        res == _get_access_token(t.obj, apps[t.obj.zoom_oauth_app], NoResponse)
    IN  /\ (t.pc = "token" /\ res.sent) => (res.outcome = "error" /\ ~res.saved)
        /\ (t.pc = "meetings") => (\A sc \in UnansweredScripts : _get_zoom_meetings(sc).outcome = "error")
        /\ (t.pc = "pmi") => (_get_zoom_personal_meeting_id(UserNoResponse).outcome = "error")

\* C37: a request to the provider that fails without an HTTP response is a
\* failure other than an authentication failure in _get_access_token and in
\* _make_zoom_api_request; the run it fails in goes to the handler of
\* "except Exception", which leaves the state and the failure data of the
\* connection, triggers no webhook, saves last_attempted_sync_at and raises
\* again, and the task queue runs the task again while retries are left.
C37_NoResponseIsOtherFailure ==
    /\ [](\A w \in DOMAIN task : NoResponseRaisesOtherError(w))
    /\ [][\A w \in DOMAIN task :
            /\ (task[w].pc \in {"token", "token_answer", "meetings", "pmi"} /\ task'[w].exception = "error")
                  => (task'[w].pc = "error_handler" /\ webhooks' = webhooks /\ conns' = conns)
            /\ (task[w].pc = "error_handler" /\ task[w].exception = "error" /\ task'[w] /= task[w])
                  => ( /\ task'[w].pc = "error_save"
                       /\ task'[w].obj.last_attempted_sync_at = now
                       /\ conns' = conns
                       /\ webhooks' = webhooks )
            /\ (task[w].pc = "error_save" /\ task[w].exception = "error" /\ task'[w] /= task[w])
                  => ( /\ task'[w].pc = "raised"
                       /\ conns'[task[w].cid].state = conns[task[w].cid].state
                       /\ conns'[task[w].cid].connection_failure_data
                             = conns[task[w].cid].connection_failure_data
                       /\ conns'[task[w].cid].last_attempted_sync_at
                             = task[w].obj.last_attempted_sync_at
                       /\ webhooks' = webhooks )
            /\ (task[w].pc = "raised" /\ task[w].exception = "error" /\ task'[w] /= task[w]
                   /\ task[w].retries < max_retries)
                  => (CopiesIn(<<task[w].cid, task[w].retries + 1>>, queue')
                        = CopiesIn(<<task[w].cid, task[w].retries + 1>>, queue) + 1)
       ]_vars

\* A run whose request with the access token got no response has raised: the
\* connection is connected, no webhook was triggered and the attempt is saved.
C37_Witness ==
    /\ task[1].pc = "raised"
    /\ task[1].error = AttributeErrorText
    /\ Truthy(task[1].access_token)
    /\ conns[1].state = CONNECTED
    /\ conns[1].connection_failure_data = NoFailureData
    /\ conns[1].last_attempted_sync_at = now
    /\ webhooks[1].count = 0

---------------------------------------------------------------------------
(* The mappings a sync leaves alone *)

\* Mappings of earlier syncs: meeting 2 of app 1 mapped to connection 2 and
\* meeting 1 of app 2 mapped to connection 3, and meeting 1 of app 1 mapped to
\* connection 2 or not mapped.
EarlierMappings ==
    {[k \in MappingKeys |->
        IF k = <<1, 2>> THEN <<MappingRow(2, 0)>>
        ELSE IF k = <<2, 1>> THEN <<MappingRow(3, 0)>>
        ELSE IF k = <<1, 1>> THEN first
        ELSE <<>>] : first \in {<<>>, <<MappingRow(2, 0)>>}}

\* Two syncs of connections 2 and 3 by one worker, where requests may fail,
\* over the mappings of earlier syncs.
InitKeep ==
    /\ apps = InitApps
    /\ conns \in InitConns({2, 3}, [faults |-> FALSE])
    /\ mappings \in EarlierMappings
    /\ queue = EmptyBag
    /\ task = [w \in {1} |-> Idle]
    /\ runs = 0
    /\ webhooks = [c \in ConnIds |-> NoWebhook]
    /\ now = 0
    /\ env = [faults |-> TRUE, rejections |-> FALSE, runs |-> 2, sweeps |-> 0]
    /\ reports = [k \in MappingKeys |-> <<>>]
    /\ px = NoPx
    /\ resp = NoResp
    /\ enq = NoEnqueue

SpecKeep == InitKeep /\ [][TaskNext]_vars

\* The meeting id the upsert of worker w is at.
UpsertsMeeting(w, k) ==
    /\ task[w].pc = "upsert"
    /\ task[w].i <= Len(task[w].zoom_meeting_ids)
    /\ k = <<task[w].obj.zoom_oauth_app, task[w].zoom_meeting_ids[task[w].i]>>

\* C38: a sync run deletes no mapping, and changes the mapping of a meeting
\* only in the upsert of that meeting id of its list for the app of its
\* connection: the mappings of other meetings, of other apps, of a connection
\* that the run marks DISCONNECTED and of a connection that no longer lists the
\* meeting stay as they were.
C38_OtherMappingsUntouched ==
    [][\A k \in MappingKeys :
         /\ Len(mappings'[k]) >= Len(mappings[k])
         /\ (mappings'[k] /= mappings[k]) => (\E w \in DOMAIN task : UpsertsMeeting(w, k))
         /\ (\A w \in DOMAIN task : task[w].pc /= "upsert") => (mappings'[k] = mappings[k])
      ]_vars

\* Connection 2 synced the list [1] and was later marked DISCONNECTED by a
\* sync: meeting 1 of app 1 is mapped to it, and the mapping of meeting 2, which
\* it no longer lists, and the mapping of app 2 are the rows of the start.
C38_Witness ==
    /\ conns[2].state = DISCONNECTED
    /\ task[1].pc = "returned" /\ task[1].cid = 2
    /\ Len(mappings[<<1, 1>>]) = 1 /\ mappings[<<1, 1>>][1].zoom_oauth_connection = 2
    /\ task[1].exception = "auth" /\ 2 \in Range(reports[<<1, 1>>])
    /\ mappings[<<1, 2>>] = <<MappingRow(2, 0)>>
    /\ mappings[<<2, 1>>] = <<MappingRow(3, 0)>>

---------------------------------------------------------------------------
(* What a validation leaves alone *)

\* The sync timestamps of a connection row.
SyncTimestamps(obj) ==
    <<obj.last_attempted_sync_at, obj.last_successful_sync_at,
      obj.last_successful_sync_started_at, obj.sync_task_enqueued_at,
      obj.sync_task_requested_at>>

\* A row but for its state, its failure data and its refresh token.
RestOfRow(obj) ==
    [obj EXCEPT !.state = CONNECTED, !.connection_failure_data = NoFailureData,
                !.refresh_token = None]

\* C39: every step of the validation loop for an app leaves the mappings,
\* the connections of other apps and the connections it does not reconnect as
\* they are, and changes of a connection it reconnects the state, the failure
\* data and the refresh token only: the sync timestamps of every connection
\* stay as they are in the table.
C39_SweepChangesStateAndFailureDataOnly ==
    [][SweepStep =>
          /\ mappings' = mappings
          /\ \A d \in ConnIds :
                /\ (conns[d].zoom_oauth_app /= px.zoom_oauth_app_id) => (conns'[d] = conns[d])
                /\ (conns'[d] /= conns[d]) => (d = px.rows[px.i].id /\ px'.pc \in {"save", "webhook"})
                /\ SyncTimestamps(conns'[d]) = SyncTimestamps(conns[d])
                /\ RestOfRow(conns'[d]) = RestOfRow(conns[d])
    ]_vars

---------------------------------------------------------------------------
(* enqueue_sync_zoom_oauth_connection_task, statement by statement *)

\* Connections 1 and 2, each with or without a pending request for a sync
\* (sync_task_requested_at), and calls of the enqueueing while the clock
\* advances.
InitEnqueue ==
    /\ apps = InitApps
    /\ conns \in {[c \in ConnIds |->
                      IF c \in {1, 2} THEN [NewConn(c) EXCEPT !.sync_task_requested_at = r[c]]
                      ELSE NoConn] : r \in [{1, 2} -> {None, 0}]}
    /\ mappings = NoMappings
    /\ queue = EmptyBag
    /\ task = [w \in {1} |-> Idle]
    /\ runs = 0
    /\ webhooks = [c \in ConnIds |-> NoWebhook]
    /\ now = 0
    /\ env = [faults |-> TRUE, rejections |-> FALSE, runs |-> MaxRuns, sweeps |-> 0]
    /\ reports = [k \in MappingKeys |-> <<>>]
    /\ px = NoPx
    /\ resp = NoResp
    /\ enq = NoEnqueue

NextEnqueue ==
    \/ \E c \in ConnIds : EnqueueBegin(c)
    \/ EnqueueDelay
    \/ EnqueueCommit
    \/ Tick

SpecEnqueue == InitEnqueue /\ [][NextEnqueue]_vars

\* C40: a sync task for a connection is queued only while the row of the
\* connection has sync_task_enqueued_at set and sync_task_requested_at None:
\* enqueue_sync_zoom_oauth_connection_task clears the request marker and
\* queues the task together, never one without the other; and when the call
\* returns, the row has sync_task_enqueued_at at the time the call read.
C40_EnqueueClearsTheRequestWithTheTask ==
    /\ [](\A c \in ConnIds :
            (CopiesIn(<<c, 0>>, queue) > 0) =>
                ( /\ conns[c].sync_task_enqueued_at /= None
                  /\ conns[c].sync_task_requested_at = None ))
    /\ [][(enq.pc = "commit" /\ enq'.pc = "returned") =>
              ( /\ conns'[enq.id].sync_task_enqueued_at = enq.obj.sync_task_enqueued_at
                /\ conns'[enq.id].sync_task_requested_at = None
                /\ CopiesIn(<<enq.id, 0>>, queue') > 0 )
         ]_vars

====
